---------------------------- MODULE Spec2Model ----------------------------
(***************************************************************************)
(* Model of the plugin execution pipeline (pkg/pipeline), the plugin      *)
(* handle (pkg/protocol GRPCClient), the download bulkhead and queue      *)
(* (pkg/download) and the archive installer of the download command.      *)
(***************************************************************************)
EXTENDS Integers, Sequences, FiniteSets, TLC

(***************************************************************************)
(* Bounds of the model.                                                    *)
(***************************************************************************)
\* largest number of plugin binaries discovery returns
MaxPlugins == 3
\* largest number of tasks submitted to a Bulkhead
MaxTasks == 3
\* largest maxConcurrent a Bulkhead or DownloadQueue is constructed with
MaxConcurrent == 2
\* largest number of items added to a DownloadQueue
MaxItems == 3
\* largest number of items queued where termination is checked
MaxFairItems == 2
\* longest archive entry name, in characters
MaxNameLen == 4
\* longest checksum resource, in characters
MaxBodyLen == 4
\* length of a digest in hex characters
DigestLen == 2
\* longest message content, in words
MaxWords == 3
\* largest single-digit number used as a version part
MaxPart == 1
\* largest number of Properties a converted Context holds
MaxProps == 2
\* largest number of Responses a converted Context holds
MaxResponses == 1

(***************************************************************************)
(* Program constants.                                                      *)
(***************************************************************************)
\* GRPCClient.Priority: the value returned when GetMetadata fails
DefaultPriority == 100
\* NewParallelDownloader: the concurrency used when maxConcurrent <= 0
DefaultConcurrent == 4
\* extractTarGz: maxFileSize, 100 * 1024 * 1024
MaxFileSize == 104857600
\* http.StatusOK
StatusOK == 200

VARIABLES
    \* ---- execution pipeline (Pipeline.ProcessEvent) ----
    pc,         \* position inside ProcessEvent
    event,      \* the Event passed to ProcessEvent
    nDisc,      \* number of plugins discovery returned (ids 1..nDisc in discovery order)
    meta,       \* per plugin process: outcome of its GetMetadata call
    loads,      \* loadAllPlugins: how each LoadPluginFromPath call so far ended
    loadIdx,    \* loadAllPlugins: next discovered plugin to load
    plugins,    \* the []LoadedPlugin slice (handles by id)
    idx,        \* position of the range loop over plugins
    context,    \* the working *types.Context
    kills,      \* per plugin: number of Client.Kill() calls so far
    calls,      \* the plugin calls made so far, in order: operation, handle, result,
                \* the working context before and after, the handle's kill count
    ret,        \* what ProcessEvent returned: the Context and the error
    \* ---- Bulkhead ----
    maxConcurrent,  \* the constructor argument
    semCap,         \* cap(b.semaphore)
    semaphore,      \* len(b.semaphore): slots taken
    bwg,            \* b.wg: outstanding ExecuteAsync goroutines
    task,           \* per submitted task: its position, how it was submitted, its error
    waiter,         \* position of a caller of Bulkhead.Wait
    waitSeen,       \* the tasks submitted through ExecuteAsync before Wait was called
    \* ---- DownloadQueue.Execute ----
    qpc,            \* position of the caller inside Execute
    nItems,         \* len(q.items)
    hasProgress,    \* q.onProgress != nil
    hasError,       \* q.onError != nil
    spawned,        \* items for which the loop has started a goroutine
    worker,         \* per item: position of its goroutine
    mu,             \* holder of the mutex (0: unlocked)
    completed,      \* the shared counter
    qwg,            \* the WaitGroup counter
    dlErr,          \* per item: what downloadFn returned
    progressArgs,   \* per item: the completed values passed to onProgress with its name
    errorCalls,     \* per item: the errors passed to onError with its name
    finalArgs,      \* the completed values passed to onProgress with the empty name
    qret,           \* the error Execute returned
    \* ---- extractTarGz ----
    xpc,            \* position inside extractTarGz
    xdest,          \* destPath
    xlast,          \* the header of the entry read last
    xout,           \* what was done for that entry: outcome, paths written, bytes copied
    \* ---- verifyFileChecksum ----
    cpc,            \* position inside verifyFileChecksum
    cin,            \* the response to http.Get, the local archive
    cres,           \* the error returned
    \* ---- ParallelDownloader.DownloadAll ----
    dpc,            \* position of the caller inside DownloadAll
    dctx,           \* pd.ctx: "background" (never done), "live" or "cancelled"
    dnames,         \* the Name of each item, in the order given
    dnext,          \* the item the dispatch loop is at
    dworker,        \* per item: position of its goroutine
    derr,           \* per item: the error its Bulkhead.Execute returned
    dwg,            \* the WaitGroup counter
    dchan,          \* resultChan: the results sent and not yet received
    dclosed,        \* resultChan has been closed
    dresults,       \* the results slice
    dret,           \* the error DownloadAll returned
    \* ---- version.IsCompatible ----
    vpc,            \* position inside IsCompatible
    vin,            \* the arguments: cliVersion, minVersion, maxVersion
    vres,           \* the results: the boolean and the error
    \* ---- ContextToProto / ProtoToContext ----
    tpc,            \* position of the conversion there and back
    tctx,           \* the Context converted
    tres,           \* the Context that came back
    \* ---- sort.Slice over the loaded plugins, by Priority() ----
    sorting,        \* the sort and the range loop of ProcessEvent: a record, see SortInit
    \* ---- runInstallAll: queue.Execute with the install callbacks ----
    install         \* runInstallAll around Execute: a record, see FlowInit

pipeVars == <<pc, event, nDisc, meta, loads, loadIdx, plugins, idx, context, kills, calls, ret>>

bulkVars == <<maxConcurrent, semCap, semaphore, bwg, task, waiter, waitSeen>>

queueVars == <<qpc, nItems, hasProgress, hasError, spawned, worker, mu, completed, qwg,
               dlErr, progressArgs, errorCalls, finalArgs, qret>>

extractVars == <<xpc, xdest, xlast, xout>>

checksumVars == <<cpc, cin, cres>>

installVars == <<extractVars, checksumVars>>

versionVars == <<vpc, vin, vres>>

tripVars == <<tpc, tctx, tres>>

allVars == <<dpc, dctx, dnames, dnext, dworker, derr, dwg, dchan, dclosed, dresults, dret>>

sortVars == <<sorting>>

flowVars == <<install>>

vars == <<pipeVars, bulkVars, queueVars, installVars, allVars, versionVars, tripVars, sortVars,
          flowVars>>

(***************************************************************************)
(* Helpers on sequences.                                                   *)
(***************************************************************************)
Range(s) == {s[i] : i \in 1..Len(s)}

Count(s, x) == Cardinality({i \in 1..Len(s) : s[i] = x})

\* all orderings of the elements of sequence s
Permutations_(s) ==
    {[i \in 1..Len(s) |-> s[f[i]]] :
        f \in {g \in [1..Len(s) -> 1..Len(s)] : \A a, b \in 1..Len(s) : a # b => g[a] # g[b]}}

(***************************************************************************)
(* Data model (pkg/types).                                                 *)
(***************************************************************************)
EventTypes == {"message", "command"}

PluginIds == 1..MaxPlugins

\* priorities a working plugin may report through GetMetadata
Priorities == {10, 150}

\* a GetMetadata call that returns an error
MetaFailed == [ok |-> FALSE, name |-> "", version |-> "", priority |-> 0]

\* the MetadataResponse of a working plugin
Metadata(name, version, priority) ==
    [ok |-> TRUE, name |-> name, version |-> version, priority |-> priority]

\* what a plugin's GetMetadata call yields for the whole run: an error, or metadata
MetaOutcomes ==
    {MetaFailed} \cup {Metadata("plugin", "1.0.0", p) : p \in Priorities}

\* a map[string]interface{} without keys
EmptyProps == [k \in {} |-> "v"]

\* An interface{} value is a tuple: its dynamic Go type, then what it holds.
StringValue(str) == <<"string", str>>

BoolValue(b) == <<"bool", IF b THEN "true" ELSE "false">>

\* context.Properties[key] = value
SetProperty(props, key, value) == (key :> value) @@ props

HasProperty(props, key) == key \in DOMAIN props

\* types.Event
NewEvent(type, content, metadata) ==
    [Type |-> type, Source |-> "cli", Content |-> content, UserID |-> "user",
     ChannelID |-> "channel", Metadata |-> metadata]

\* types.Response
Response(pluginName, type, content, data) ==
    [PluginName |-> pluginName, Content |-> content, Type |-> type, Data |-> data]

\* the pointer returned by GRPCClient.Process beside a non-nil error: nil,
\* told from every Context by its Event type
NilContext ==
    [Event |-> NewEvent("nil", <<>>, EmptyProps), Properties |-> EmptyProps, Responses |-> <<>>]

NewContext(ev) == [Event |-> ev, Properties |-> EmptyProps, Responses |-> <<>>]

(***************************************************************************)
(* Plugin handle: GRPCClient.                                              *)
(***************************************************************************)
\* GRPCClient.Name
Name(h) == IF meta[h].ok THEN meta[h].name ELSE ""

\* GRPCClient.Version
Version(h) == IF meta[h].ok THEN meta[h].version ELSE ""

\* GRPCClient.Priority
Priority(h) == IF meta[h].ok THEN meta[h].priority ELSE DefaultPriority

\* variant: a transport error lets the plugin run
ShouldExecuteDecisionFailOpen(rpc) ==
    [ShouldExecute |-> (rpc # "decline"), Reason |-> rpc]

\* GRPCClient.ShouldExecute: a transport error becomes a decline
ShouldExecuteDecision(rpc) ==
    IF rpc = "rpc_error"
    THEN [ShouldExecute |-> FALSE, Reason |-> "rpc_error"]
    ELSE [ShouldExecute |-> (rpc = "accept"), Reason |-> rpc]

(***************************************************************************)
(* The wire form of a Context (pkg/protocol): ContextToProto and           *)
(* ProtoToContext. Maps travel as JSON text, written by json.Marshal and   *)
(* read back by json.Unmarshal into map[string]interface{}. A JSON value   *)
(* is a tuple: its JSON kind, then what it holds. A number is held by its  *)
(* decimal digits.                                                         *)
(***************************************************************************)
\* json.Marshal: the JSON kind a value of a Go type is written as
JsonKind(goType) ==
    CASE goType \in {"int", "int64", "float64"} -> "number"
      [] goType = "string" -> "string"
      [] goType = "bool" -> "bool"
      [] goType \in {"[]string", "[]interface{}"} -> "array"
      [] goType = "map[string]interface{}" -> "object"
      [] OTHER -> "null"

\* json.Unmarshal into interface{}: the Go type a JSON kind is read as
GoType(kind) ==
    CASE kind = "number" -> "float64"
      [] kind = "string" -> "string"
      [] kind = "bool" -> "bool"
      [] kind = "array" -> "[]interface{}"
      [] kind = "object" -> "map[string]interface{}"
      [] OTHER -> "nil"

\* an int64 that no float64 holds: 2^53 + 1
BigInt == "9007199254740993"

\* strconv.ParseFloat(digits, 64): the float64 nearest to the number written
NearestFloat64(digits) == IF digits = BigInt THEN "9007199254740992" ELSE digits

\* json.Marshal refuses functions and channels
Marshalable(v) == v[1] \notin {"func", "chan"}

RECURSIVE MarshalValue(_)
\* json.Marshal of one value
MarshalValue(v) ==
    CASE v[1] = "map[string]interface{}" ->
             <<"object", [k \in DOMAIN v[2] |-> MarshalValue(v[2][k])]>>
      [] v[1] = "[]interface{}" ->
             <<"array", [i \in 1..Len(v[2]) |-> MarshalValue(v[2][i])]>>
      [] v[1] = "[]string" ->
             <<"array", [i \in 1..Len(v[2]) |-> <<"string", v[2][i]>>]>>
      [] OTHER -> [v EXCEPT ![1] = JsonKind(v[1])]

RECURSIVE UnmarshalValue(_)
\* variant: a number is read back as an integer
UnmarshalValueKeepInt(j) ==
    [j EXCEPT ![1] = IF j[1] = "number" THEN "int" ELSE GoType(j[1])]

\* json.Unmarshal of one value into interface{}
UnmarshalValue(j) ==
    CASE j[1] = "number" -> <<GoType(j[1]), NearestFloat64(j[2])>>
      [] j[1] = "object" -> <<GoType(j[1]), [k \in DOMAIN j[2] |-> UnmarshalValue(j[2][k])]>>
      [] j[1] = "array" -> <<GoType(j[1]), [i \in 1..Len(j[2]) |-> UnmarshalValue(j[2][i])]>>
      [] OTHER -> [j EXCEPT ![1] = GoType(j[1])]

\* string(json), the error of json.Marshal(m) dropped: the text of the object, or
\* the empty string when some value cannot be written
MarshalMap(m) ==
    IF \A k \in DOMAIN m : Marshalable(m[k])
    THEN [text |-> "object", members |-> [k \in DOMAIN m |-> MarshalValue(m[k])]]
    ELSE [text |-> "", members |-> EmptyProps]

\* json.Unmarshal(text, &m), its error dropped: m stays without keys when the
\* text is not JSON
UnmarshalMap(json) ==
    IF json.text = "object"
    THEN [k \in DOMAIN json.members |-> UnmarshalValue(json.members[k])]
    ELSE EmptyProps

\* ContextToProto
ContextToProto(ctx) ==
    [Event |-> [Type |-> ctx.Event.Type,
                Source |-> ctx.Event.Source,
                Content |-> ctx.Event.Content,
                UserId |-> ctx.Event.UserID,
                ChannelId |-> ctx.Event.ChannelID,
                MetadataJson |-> MarshalMap(ctx.Event.Metadata)],
     PropertiesJson |-> MarshalMap(ctx.Properties),
     Responses |-> [i \in 1..Len(ctx.Responses) |->
                      [PluginName |-> ctx.Responses[i].PluginName,
                       Content |-> ctx.Responses[i].Content,
                       Type |-> ctx.Responses[i].Type,
                       DataJson |-> MarshalMap(ctx.Responses[i].Data)]]]

\* ProtoToContext
ProtoToContext(proto) ==
    [Event |-> [Type |-> proto.Event.Type,
                Source |-> proto.Event.Source,
                Content |-> proto.Event.Content,
                UserID |-> proto.Event.UserId,
                ChannelID |-> proto.Event.ChannelId,
                Metadata |-> UnmarshalMap(proto.Event.MetadataJson)],
     Properties |-> UnmarshalMap(proto.PropertiesJson),
     Responses |-> [i \in 1..Len(proto.Responses) |->
                      [PluginName |-> proto.Responses[i].PluginName,
                       Content |-> proto.Responses[i].Content,
                       Type |-> proto.Responses[i].Type,
                       Data |-> UnmarshalMap(proto.Responses[i].DataJson)]]]

\* the Context a plugin's Process hands back when it adds a property and a
\* response to the Context it was given
Enriched(h, ctx) ==
    [Event |-> ctx.Event,
     Properties |-> SetProperty(ctx.Properties, h, StringValue("v")),
     Responses |-> Append(ctx.Responses, Response(h, "text", "", EmptyProps))]

\* the Contexts the Process of a plugin may hand back for the Context it was
\* given: the enriched one, one with everything dropped, one with the Event's
\* content rewritten
PluginResults(h, ctx) ==
    { Enriched(h, ctx),
      [Event |-> ctx.Event, Properties |-> EmptyProps, Responses |-> <<>>],
      [ctx EXCEPT !.Event.Content = <<"rewritten">>] }

\* GRPCClient.Process sends ContextToProto(ctx); GRPCServer.Process reads it
\* with ProtoToContext, calls the plugin and answers with ContextToProto of
\* what the plugin handed back
ProcessReplies(h, ctx) ==
    {ContextToProto(out) : out \in PluginResults(h, ProtoToContext(ContextToProto(ctx)))}

\* the same for a plugin that enriches the Context
EnrichedReply(h, ctx) == {ContextToProto(Enriched(h, ProtoToContext(ContextToProto(ctx))))}

(***************************************************************************)
(* Versions (pkg/version): Parse, Compare, IsCompatible.                   *)
(***************************************************************************)
DigitChars == <<"0", "1", "2", "3", "4", "5", "6", "7", "8", "9">>

IsDigit(c) == \E k \in 1..Len(DigitChars) : DigitChars[k] = c

DigitValue(c) == (CHOOSE k \in 1..Len(DigitChars) : DigitChars[k] = c) - 1

RECURSIVE Split(_, _, _)
\* strings.Split(s, "."): the parts of s between dots, empty ones included, from
\* position i on; cur is the part being read
Split(s, i, cur) ==
    IF i > Len(s) THEN <<cur>>
    ELSE IF s[i] = "." THEN <<cur>> \o Split(s, i + 1, <<>>)
         ELSE Split(s, i + 1, Append(cur, s[i]))

RECURSIVE DigitsValue(_, _)
\* the number the digits of s denote, acc being the value of those read
DigitsValue(s, acc) ==
    IF s = <<>> THEN acc ELSE DigitsValue(Tail(s), acc * 10 + DigitValue(Head(s)))

\* strconv.Atoi: an optional sign followed by one or more decimal digits
Atoi(s) ==
    LET signed == s # <<>> /\ s[1] \in {"+", "-"}
        digits == IF signed THEN Tail(s) ELSE s
    IN IF digits = <<>> \/ \E k \in 1..Len(digits) : ~IsDigit(digits[k])
       THEN [ok |-> FALSE, val |-> 0]
       ELSE [ok |-> TRUE,
             val |-> IF signed /\ s[1] = "-" THEN 0 - DigitsValue(digits, 0)
                                             ELSE DigitsValue(digits, 0)]

\* version.Parse
Parse(v) ==
    LET parts == Split(v, 1, <<>>) IN
    IF Len(parts) # 3 THEN [ok |-> FALSE, Major |-> 0, Minor |-> 0, Patch |-> 0]
    ELSE LET major == Atoi(parts[1])
             minor == Atoi(parts[2])
             patch == Atoi(parts[3])
         IN IF ~major.ok \/ ~minor.ok \/ ~patch.ok
            THEN [ok |-> FALSE, Major |-> 0, Minor |-> 0, Patch |-> 0]
            ELSE [ok |-> TRUE, Major |-> major.val, Minor |-> minor.val, Patch |-> patch.val]

\* Version.Compare
Compare(v, other) ==
    IF v.Major # other.Major THEN v.Major - other.Major
    ELSE IF v.Minor # other.Minor THEN v.Minor - other.Minor
    ELSE v.Patch - other.Patch

IsCompatibleResult(compatible, err) == [compatible |-> compatible, err |-> err]

\* version.IsCompatible
IsCompatible(cliVersion, minVersion, maxVersion) ==
    LET cli == Parse(cliVersion)
        min == Parse(minVersion)
        max == Parse(maxVersion)
    IN IF ~cli.ok THEN IsCompatibleResult(FALSE, "failed to parse CLI version")
       ELSE IF minVersion # <<>> /\ ~min.ok
            THEN IsCompatibleResult(FALSE, "failed to parse minimum version")
       ELSE IF minVersion # <<>> /\ Compare(cli, min) < 0
            THEN IsCompatibleResult(FALSE, "nil")
       ELSE IF maxVersion # <<>> /\ ~max.ok
            THEN IsCompatibleResult(FALSE, "failed to parse maximum version")
       ELSE IF maxVersion # <<>> /\ Compare(cli, max) > 0
            THEN IsCompatibleResult(FALSE, "nil")
       ELSE IsCompatibleResult(TRUE, "nil")

RECURSIVE Decimal(_)
\* strconv.Itoa for n >= 0
Decimal(n) ==
    IF n < 10 THEN <<DigitChars[n + 1]>>
    ELSE Append(Decimal(n \div 10), DigitChars[(n % 10) + 1])

\* Version.String
VersionString(major, minor, patch) ==
    Decimal(major) \o <<".">> \o Decimal(minor) \o <<".">> \o Decimal(patch)

\* the numbers version parts are drawn from: small ones, and a two-digit one
PartValues == (0..MaxPart) \cup {10}

\* well-formed version strings
GoodVersions == {VersionString(a, b, c) : a, b, c \in PartValues}

\* malformed version strings: too few parts, too many, a part that is not a
\* number, an empty part
BadVersions ==
    {<<"1", ".", "0">>,
     <<"1", ".", "0", ".", "0", ".", "0">>,
     <<"x", ".", "0", ".", "0">>,
     <<"1", ".", "x", ".", "0">>,
     <<"1", ".", "0", ".", "x">>,
     <<"1", ".", ".", "0">>,
     <<"1", "0", "0">>}

(***************************************************************************)
(* Pipeline.ProcessEvent.                                                  *)
(***************************************************************************)
\* the comparator handed to sort.Slice
Less(a, b) == Priority(a) < Priority(b)

IsSortedByLess(s) == \A i, j \in 1..Len(s) : i < j => ~Less(s[j], s[i])

\* variant: the slice is left in discovery order
SortSliceUnsorted(s) == {s}

\* sort.Slice: some ordering of the slice that the comparator accepts as sorted;
\* the library does not promise which one when elements compare equal
SortSlice(s) == {q \in Permutations_(s) : IsSortedByLess(q)}

\* variant: the decision is not looked at
NextAfterDecisionAlways(decision) == "process"

\* lines 139-143: a declined plugin is skipped, an accepting one is processed
NextAfterDecision(decision) == IF decision.ShouldExecute THEN "process" ELSE "loop"

\* variant: the returned context is adopted even beside an error
ContextAfterProcessAdopt(ctx, newContext, failed) == newContext

\* lines 148-156: the returned context replaces the working one only on success
ContextAfterProcess(ctx, newContext, failed) == IF failed THEN ctx ELSE newContext

\* variant: the cleanup misses the first handle
DeferredCleanupTail(ps) == IF ps = <<>> THEN ps ELSE Tail(ps)

\* line 126: the slice handed to the deferred cleanupPlugins
DeferredCleanup(ps) == ps

\* nothing returned yet
NoReturn == [Context |-> NilContext, err |-> "none"]

\* variant: the error of the last failed Process is returned
ProcessEventReturnLastError(ctx, log) ==
    [Context |-> ctx,
     err |-> IF \E k \in 1..Len(log) : log[k].res = "error" THEN "error" ELSE "nil"]

\* line 160: return context, nil. The return on line 124 is never taken:
\* discovery.DiscoverPlugins returns a nil error on every path.
ProcessEventReturn(ctx, log) == [Context |-> ctx, err |-> "nil"]

\* the record of one plugin call
Call(op, h, rpc, reason, res, before, after, at) ==
    [op |-> op, h |-> h, rpc |-> rpc, reason |-> reason, res |-> res,
     before |-> before, after |-> after, at |-> at, killed |-> kills[h]]

PipelineInit ==
    /\ pc = "load"
    \* ProcessEvent never inspects the event (SpecExample varies it)
    /\ event = NewEvent("message", <<>>, EmptyProps)
    /\ nDisc \in 0..MaxPlugins
    \* no plugin process runs yet: what each answers is settled when it is loaded
    /\ meta = [i \in PluginIds |-> MetaFailed]
    /\ loads = <<>>
    /\ loadIdx = 1
    /\ plugins = <<>>
    /\ idx = 0
    /\ context = NewContext(event)
    /\ kills = [i \in PluginIds |-> 0]
    /\ calls = <<>>
    /\ ret = NoReturn

\* no pipeline run in progress
PipelineIdle ==
    /\ pc = "idle"
    /\ event = NewEvent("message", <<>>, EmptyProps)
    /\ nDisc = 0
    /\ meta = [i \in PluginIds |-> MetaFailed]
    /\ loads = <<>>
    /\ loadIdx = 1
    /\ plugins = <<>>
    /\ idx = 0
    /\ context = NewContext(event)
    /\ kills = [i \in PluginIds |-> 0]
    /\ calls = <<>>
    /\ ret = NoReturn

LoadOutcomes == {"ok", "rpc_client_error", "dispense_error", "not_versioned",
                 "version_parse_error", "incompatible"}

\* version.CLIVersion
CLIVersion == VersionString(1, 0, 0)

\* how far LoadPluginFromPath gets before the version check
LoadSteps == {"rpc_client_error", "dispense_error", "not_versioned", "dispensed"}

\* the version bounds a plugin may declare: none, met, not met, malformed
VersionBounds ==
    {<<>>, VersionString(0, 9, 0), VersionString(1, 0, 0), VersionString(2, 0, 0),
     <<"1", ".", "x", ".", "0">>}

\* LoadPluginFromPath: the error it returns, "ok" for none. The handle's
\* MinCLIVersion and MaxCLIVersion answer "" when GetMetadata fails
LoadResult(step, m, minCli, maxCli) ==
    IF step # "dispensed" THEN step
    ELSE LET minVersion == IF m.ok THEN minCli ELSE <<>>
             maxVersion == IF m.ok THEN maxCli ELSE <<>>
             checked == IsCompatible(CLIVersion, minVersion, maxVersion)
         IN IF checked.err # "nil" THEN "version_parse_error"
            ELSE IF ~checked.compatible THEN "incompatible"
            ELSE "ok"

\* a variant of LoadPluginFromPath that returns its error without client.Kill()
FailedLoadLeaks(k, h) == k

\* LoadPluginFromPath, every error branch: client.Kill()
FailedLoadKills(k, h) == [k EXCEPT ![h] = @ + 1]

\* loadAllPlugins, one discovered plugin: Manager.LoadPluginFromPath starts the
\* process, whose GetMetadata answers one of metas for the rest of the run and
\* declares one of the pairs of version bounds; a failed load is logged and the
\* loop continues
LoadPluginOf(metas, steps, bounds) ==
    /\ pc = "load"
    /\ loadIdx <= nDisc
    /\ \E step \in steps, m \in metas, declared \in bounds :
          \E outcome \in {LoadResult(step, m, declared[1], declared[2])} :
          /\ loads' = Append(loads, outcome)
          /\ IF outcome = "ok"
             THEN /\ plugins' = Append(plugins, loadIdx)
                  /\ meta' = [meta EXCEPT ![loadIdx] = m]
                  /\ UNCHANGED kills
             ELSE /\ kills' = FailedLoadKills(kills, loadIdx)
                  /\ UNCHANGED <<plugins, meta>>
    /\ loadIdx' = loadIdx + 1
    /\ UNCHANGED <<pc, ret, event, nDisc, idx, context, calls>>
    /\ UNCHANGED <<bulkVars, queueVars, installVars, allVars, versionVars, tripVars, sortVars, flowVars>>

\* the priorities of the discovered plugins fall in discovery order, so that the
\* sort reverses the slice
DescendingMetadata(i) == Metadata("plugin", "1.0.0", 10 * (MaxPlugins + 1 - i))

LoadPlugin == LoadPluginOf({DescendingMetadata(loadIdx)}, LoadSteps, VersionBounds \X VersionBounds)

\* a plugin of any priority, or one whose GetMetadata fails, is loaded, unless it
\* fails to start; it declares no version bounds
OrderLoadPlugin == LoadPluginOf(MetaOutcomes, {"rpc_client_error", "dispensed"}, {<<<<>>, <<>>>>})

\* lines 126-131: the cleanup is deferred and the slice sorted in place
SortPlugins ==
    /\ pc = "load"
    /\ loadIdx > nDisc
    /\ plugins' \in SortSlice(plugins)
    /\ idx' = 1
    /\ pc' = "loop"
    /\ UNCHANGED <<ret, event, nDisc, meta, loads, loadIdx, context, kills, calls>>
    /\ UNCHANGED <<bulkVars, queueVars, installVars, allVars, versionVars, tripVars, sortVars, flowVars>>

\* lines 135-143: ShouldExecute on the current handle, the call ending in one
\* of rpcs
DecideOf(rpcs) ==
    /\ pc = "loop"
    /\ idx <= Len(plugins)
    /\ \E rpc \in rpcs :
          LET h == plugins[idx]
              decision == ShouldExecuteDecision(rpc)
          IN /\ calls' = Append(calls,
                      Call("decide", h, rpc, decision.Reason,
                           IF decision.ShouldExecute THEN "accept" ELSE "decline",
                           context, context, idx))
             /\ pc' = NextAfterDecision(decision)
             /\ idx' = IF pc' = "loop" THEN idx + 1 ELSE idx
    /\ UNCHANGED <<ret, event, nDisc, meta, loads, loadIdx, plugins, context, kills>>
    /\ UNCHANGED <<bulkVars, queueVars, installVars, allVars, versionVars, tripVars, sortVars, flowVars>>

Decide == DecideOf({"accept", "decline", "rpc_error"})

\* the plugin answers; the transport does not fail
OrderDecide == DecideOf({"accept", "decline"})

\* lines 147-157: Process on the current handle answers with one of protos,
\* which is adopted
ProcessAnswered(protos) ==
    /\ pc = "process"
    /\ \E proto \in protos :
          /\ context' = ContextAfterProcess(context, ProtoToContext(proto), FALSE)
          /\ calls' = Append(calls, Call("process", plugins[idx], "ok", "", "ok",
                                         context, context', idx))
    /\ pc' = "loop"
    /\ idx' = idx + 1
    /\ UNCHANGED <<ret, event, nDisc, meta, loads, loadIdx, plugins, kills>>
    /\ UNCHANGED <<bulkVars, queueVars, installVars, allVars, versionVars, tripVars, sortVars, flowVars>>

\* a variant that sends Process again to the handle whose Process failed
AfterProcessErrorRetry == "process"

\* lines 148-153: `continue`, the loop goes on to the next handle
AfterProcessError == "loop"

\* lines 148-153: Process returns an error; the previous Context is kept
ProcessFailed ==
    /\ pc = "process"
    /\ context' = ContextAfterProcess(context, NilContext, TRUE)
    /\ calls' = Append(calls, Call("process", plugins[idx], "error", "", "error",
                                   context, context', idx))
    /\ pc' = AfterProcessError
    /\ idx' = IF pc' = "loop" THEN idx + 1 ELSE idx
    /\ UNCHANGED <<ret, event, nDisc, meta, loads, loadIdx, plugins, kills>>
    /\ UNCHANGED <<bulkVars, queueVars, installVars, allVars, versionVars, tripVars, sortVars, flowVars>>

\* an answer without an Event: ProtoToContext dereferences nil and panics
ProcessPanicked ==
    /\ pc = "process"
    /\ calls' = Append(calls, Call("process", plugins[idx], "panic", "", "panic",
                                   context, context, idx))
    /\ pc' = "panic"
    /\ UNCHANGED <<context, idx>>
    /\ UNCHANGED <<ret, event, nDisc, meta, loads, loadIdx, plugins, kills>>
    /\ UNCHANGED <<bulkVars, queueVars, installVars, allVars, versionVars, tripVars, sortVars, flowVars>>

\* lines 147-157: Process on the current handle, whatever the plugin does
Process ==
    \/ ProcessAnswered(ProcessReplies(plugins[idx], context))
    \/ ProcessFailed
    \/ ProcessPanicked

\* Process on a plugin that enriches the Context
OrderProcess == ProcessAnswered(EnrichedReply(plugins[idx], context))

\* line 160 and cleanupPlugins, run by the defer when the function returns or panics
CleanupPlugins ==
    /\ \/ pc = "panic"
       \/ pc = "loop" /\ idx > Len(plugins)
    /\ kills' = [i \in PluginIds |-> kills[i] + Count(DeferredCleanup(plugins), i)]
    /\ pc' = IF pc = "panic" THEN "panicked" ELSE "done"
    /\ ret' = IF pc = "panic" THEN ret ELSE ProcessEventReturn(context, calls)
    /\ UNCHANGED <<event, nDisc, meta, loads, loadIdx, plugins, idx, context, calls>>
    /\ UNCHANGED <<bulkVars, queueVars, installVars, allVars, versionVars, tripVars, sortVars, flowVars>>

(***************************************************************************)
(* Bulkhead (pkg/download).                                                *)
(***************************************************************************)
TaskIds == 1..MaxTasks

ItemIds == 1..MaxItems

\* variant: a channel one slot too large
NewBulkheadCapOffByOne(n) == IF n <= 0 THEN 1 ELSE n + 1

\* NewBulkhead: the capacity of the semaphore channel
NewBulkheadCap(n) == IF n <= 0 THEN 1 ELSE n

\* NewParallelDownloader: the maxConcurrent handed to NewBulkhead
NewParallelDownloaderMax(n) == IF n <= 0 THEN DefaultConcurrent ELSE n

\* variant: a send that never blocks
CanSendAlways(len, cap) == TRUE

\* b.semaphore <- struct{}{} proceeds only while the channel has room
CanSend(len, cap) == len < cap

NewTask == [st |-> "new", mode |-> "none", err |-> "none"]

\* variant: the wait returns while one goroutine is still out
WaitReturnsEarly(counter) == counter <= 1

\* sync.WaitGroup.Wait: returns when the counter is zero
WaitReturns(counter) == counter = 0

\* variant: the goroutine is started without wg.Add
WaitGroupAfterAddMissing(counter) == counter

\* line 36: b.wg.Add(1)
WaitGroupAfterAdd(counter) == counter + 1

\* no Bulkhead in use
BulkheadIdle ==
    /\ maxConcurrent = 0
    /\ semCap = 0
    /\ semaphore = 0
    /\ bwg = 0
    /\ task = [t \in TaskIds |-> NewTask]
    /\ waiter = "idle"
    /\ waitSeen = {}

\* a Bulkhead as NewBulkhead returns it
BulkheadInit ==
    /\ maxConcurrent \in -1..MaxConcurrent
    /\ semCap = NewBulkheadCap(maxConcurrent)
    /\ semaphore = 0
    /\ bwg = 0
    /\ task = [t \in TaskIds |-> NewTask]
    /\ waiter = "idle"
    /\ waitSeen = {}

\* a caller enters Bulkhead.Execute and reaches the send on the semaphore
ExecuteCall(t) ==
    /\ task[t].st = "new"
    /\ task' = [task EXCEPT ![t] = [st |-> "blocked", mode |-> "sync", err |-> "none"]]
    /\ UNCHANGED <<maxConcurrent, semCap, semaphore, bwg, waiter, waitSeen>>
    /\ UNCHANGED <<pipeVars, queueVars, installVars, allVars, versionVars, tripVars, sortVars, flowVars>>

\* Bulkhead.ExecuteAsync: wg.Add(1) and a goroutine that calls Execute; the caller returns
ExecuteAsyncCall(t) ==
    /\ task[t].st = "new"
    /\ bwg' = WaitGroupAfterAdd(bwg)
    /\ task' = [task EXCEPT ![t] = [st |-> "blocked", mode |-> "async", err |-> "none"]]
    /\ UNCHANGED <<maxConcurrent, semCap, semaphore, waiter, waitSeen>>
    /\ UNCHANGED <<pipeVars, queueVars, installVars, allVars, versionVars, tripVars, sortVars, flowVars>>

\* Execute line 28: the send succeeds and fn starts
AcquireSlot(t) ==
    /\ task[t].st = "blocked"
    /\ CanSend(semaphore, semCap)
    /\ semaphore' = semaphore + 1
    /\ task' = [task EXCEPT ![t].st = "running"]
    /\ UNCHANGED <<maxConcurrent, semCap, bwg, waiter, waitSeen>>
    /\ UNCHANGED <<pipeVars, queueVars, installVars, allVars, versionVars, tripVars, sortVars, flowVars>>

\* fn returns, with or without an error
TaskReturn(t) ==
    /\ task[t].st = "running"
    /\ \E e \in {"nil", "error"} :
          task' = [task EXCEPT ![t].st = "returned", ![t].err = e]
    /\ UNCHANGED <<maxConcurrent, semCap, semaphore, bwg, waiter, waitSeen>>
    /\ UNCHANGED <<pipeVars, queueVars, installVars, allVars, versionVars, tripVars, sortVars, flowVars>>

\* variant: the slot is given back only when fn succeeded
ReleasesSlotOnSuccessOnly(err) == err = "nil"

\* Execute line 29: the deferred receive runs whatever fn returned
ReleasesSlot(err) == TRUE

\* the deferred receive from the semaphore, then (async) the deferred wg.Done
ReleaseSlot(t) ==
    /\ task[t].st = "returned"
    /\ semaphore' = IF ReleasesSlot(task[t].err) THEN semaphore - 1 ELSE semaphore
    /\ bwg' = IF task[t].mode = "async" THEN bwg - 1 ELSE bwg
    /\ task' = [task EXCEPT ![t].st = "done"]
    /\ UNCHANGED <<maxConcurrent, semCap, waiter, waitSeen>>
    /\ UNCHANGED <<pipeVars, queueVars, installVars, allVars, versionVars, tripVars, sortVars, flowVars>>

\* a caller enters Bulkhead.Wait: b.wg.Wait() begins
WaitCall ==
    /\ waiter = "idle"
    /\ waiter' = "waiting"
    /\ waitSeen' = {t \in TaskIds : task[t].mode = "async"}
    /\ UNCHANGED <<maxConcurrent, semCap, semaphore, bwg, task>>
    /\ UNCHANGED <<pipeVars, queueVars, installVars, allVars, versionVars, tripVars, sortVars, flowVars>>

\* lines 44-46: b.wg.Wait() returns and so does Wait
WaitReturn ==
    /\ waiter = "waiting"
    /\ WaitReturns(bwg)
    /\ waiter' = "returned"
    /\ UNCHANGED <<maxConcurrent, semCap, semaphore, bwg, task, waitSeen>>
    /\ UNCHANGED <<pipeVars, queueVars, installVars, allVars, versionVars, tripVars, sortVars, flowVars>>

BulkheadNext ==
    \/ WaitCall
    \/ WaitReturn
    \/ \E t \in TaskIds :
          \/ ExecuteCall(t)
          \/ ExecuteAsyncCall(t)
          \/ AcquireSlot(t)
          \/ TaskReturn(t)
          \/ ReleaseSlot(t)

(***************************************************************************)
(* DownloadQueue.Execute (pkg/download).                                   *)
(***************************************************************************)
\* no DownloadQueue in use
QueueIdle ==
    /\ qpc = "idle"
    /\ nItems = 0
    /\ hasProgress = FALSE
    /\ hasError = FALSE
    /\ spawned = 0
    /\ worker = [i \in ItemIds |-> "none"]
    /\ mu = 0
    /\ completed = 0
    /\ qwg = 0
    /\ dlErr = [i \in ItemIds |-> "none"]
    /\ progressArgs = [i \in ItemIds |-> <<>>]
    /\ errorCalls = [i \in ItemIds |-> <<>>]
    /\ finalArgs = <<>>
    /\ qret = "none"

\* which of SetProgressCallback and SetErrorCallback were called: both, only the
\* error callback, neither
CallbackSettings == {<<TRUE, TRUE>>, <<FALSE, TRUE>>, <<FALSE, FALSE>>}

\* NewDownloadQueue(maxConcurrent), Add for each item, the callbacks set or not
QueueInit ==
    /\ maxConcurrent \in 0..MaxConcurrent
    /\ semCap = NewBulkheadCap(NewParallelDownloaderMax(maxConcurrent))
    /\ semaphore = 0
    /\ bwg = 0
    /\ task = [t \in TaskIds |-> NewTask]
    /\ waiter = "idle"
    /\ waitSeen = {}
    /\ qpc = "start"
    /\ nItems \in 0..MaxItems
    /\ \E cb \in CallbackSettings : hasProgress = cb[1] /\ hasError = cb[2]
    /\ spawned = 0
    /\ worker = [i \in ItemIds |-> "none"]
    /\ mu = 0
    /\ completed = 0
    /\ qwg = 0
    /\ dlErr = [i \in ItemIds |-> "none"]
    /\ progressArgs = [i \in ItemIds |-> <<>>]
    /\ errorCalls = [i \in ItemIds |-> <<>>]
    /\ finalArgs = <<>>
    /\ qret = "none"

\* variant: the first failure is returned
ExecuteResultFirstError(errs) == IF "error" \in errs THEN "error" ELSE "nil"

\* lines 176 and 218: the error Execute returns, whatever the items' errors were
ExecuteResult(errs) == "nil"

\* lines 175-177: an empty queue returns at once
ExecuteEmpty ==
    /\ qpc = "start"
    /\ nItems = 0
    /\ qpc' = "returned"
    /\ qret' = ExecuteResult({})
    /\ UNCHANGED <<nItems, hasProgress, hasError, spawned, worker, mu, completed, qwg,
                   dlErr, progressArgs, errorCalls, finalArgs>>
    /\ UNCHANGED <<pipeVars, bulkVars, installVars, allVars, versionVars, tripVars, sortVars, flowVars>>

\* lines 184-186: wg.Add(1) and the goroutine of the next item
SpawnWorker ==
    /\ qpc \in {"start", "spawn"}
    /\ spawned < nItems
    /\ spawned' = spawned + 1
    /\ qwg' = qwg + 1
    /\ worker' = [worker EXCEPT ![spawned + 1] = "lock"]
    /\ qpc' = "spawn"
    /\ UNCHANGED <<nItems, hasProgress, hasError, mu, completed, dlErr, progressArgs,
                   errorCalls, finalArgs, qret>>
    /\ UNCHANGED <<pipeVars, bulkVars, installVars, allVars, versionVars, tripVars, sortVars, flowVars>>

\* a variant of the mutex that never makes a goroutine wait
CanLockAlways(m) == TRUE

\* mu.Lock() returns only when no goroutine holds the mutex
CanLock(m) == m = 0

\* lines 190-194: mu.Lock(), then onProgress(completed, total, item.Name) begins;
\* without a callback the mutex is unlocked again at once
ProgressBegin(i) ==
    /\ worker[i] = "lock"
    /\ CanLock(mu)
    /\ IF hasProgress
       THEN /\ mu' = i
            /\ progressArgs' = [progressArgs EXCEPT ![i] = Append(@, completed)]
            /\ worker' = [worker EXCEPT ![i] = "progress"]
       ELSE /\ UNCHANGED <<mu, progressArgs>>
            /\ worker' = [worker EXCEPT ![i] = "blocked"]
    /\ UNCHANGED <<qpc, nItems, hasProgress, hasError, spawned, completed, qwg, dlErr,
                   errorCalls, finalArgs, qret>>
    /\ UNCHANGED <<pipeVars, bulkVars, installVars, allVars, versionVars, tripVars, sortVars, flowVars>>

\* line 194: the callback has returned, mu.Unlock()
ProgressEnd(i) ==
    /\ worker[i] = "progress"
    /\ mu' = 0
    /\ worker' = [worker EXCEPT ![i] = "blocked"]
    /\ UNCHANGED <<qpc, nItems, hasProgress, hasError, spawned, completed, qwg, dlErr,
                   progressArgs, errorCalls, finalArgs, qret>>
    /\ UNCHANGED <<pipeVars, bulkVars, installVars, allVars, versionVars, tripVars, sortVars, flowVars>>

\* line 197 / Bulkhead.Execute line 28: the send succeeds, downloadFunc(item) starts
DownloadStart(i) ==
    /\ worker[i] = "blocked"
    /\ CanSend(semaphore, semCap)
    /\ semaphore' = semaphore + 1
    /\ worker' = [worker EXCEPT ![i] = "running"]
    /\ UNCHANGED <<maxConcurrent, semCap, bwg, task, waiter, waitSeen>>
    /\ UNCHANGED <<qpc, nItems, hasProgress, hasError, spawned, mu, completed, qwg, dlErr,
                   progressArgs, errorCalls, finalArgs, qret>>
    /\ UNCHANGED <<pipeVars, installVars, allVars, versionVars, tripVars, sortVars, flowVars>>

\* downloadFunc(item) returns, with or without an error, and the deferred receive
\* of Bulkhead.Execute (line 29) frees the slot
DownloadReturn(i) ==
    /\ worker[i] = "running"
    /\ \E e \in {"nil", "error"} :
          /\ dlErr' = [dlErr EXCEPT ![i] = e]
          /\ semaphore' = IF ReleasesSlot(e) THEN semaphore - 1 ELSE semaphore
    /\ worker' = [worker EXCEPT ![i] = "count"]
    /\ UNCHANGED <<maxConcurrent, semCap, bwg, task, waiter, waitSeen>>
    /\ UNCHANGED <<qpc, nItems, hasProgress, hasError, spawned, mu, completed, qwg,
                   progressArgs, errorCalls, finalArgs, qret>>
    /\ UNCHANGED <<pipeVars, installVars, allVars, versionVars, tripVars, sortVars, flowVars>>

\* variant: only successful items are counted
CompletedAfterSuccessOnly(c, err) == IF err = "nil" THEN c + 1 ELSE c

\* line 202: completed++, whatever the download returned
CompletedAfter(c, err) == c + 1

\* lines 201-203: completed++ under the mutex
CountCompleted(i) ==
    /\ worker[i] = "count"
    /\ CanLock(mu)
    /\ completed' = CompletedAfter(completed, dlErr[i])
    /\ worker' = [worker EXCEPT ![i] = "counted"]
    /\ UNCHANGED <<qpc, nItems, hasProgress, hasError, spawned, mu, qwg, dlErr,
                   progressArgs, errorCalls, finalArgs, qret>>
    /\ UNCHANGED <<pipeVars, bulkVars, installVars, allVars, versionVars, tripVars, sortVars, flowVars>>

\* variant: the callback is called for every item
CallsOnErrorAlways(err, registered) == registered

\* line 205: err != nil && q.onError != nil
CallsOnError(err, registered) == err # "nil" /\ registered

\* lines 205-207 and the deferred wg.Done(): onError(item.Name, err) for a failed
\* item, then the goroutine ends
WorkerFinish(i) ==
    /\ worker[i] = "counted"
    /\ errorCalls' = IF CallsOnError(dlErr[i], hasError)
                     THEN [errorCalls EXCEPT ![i] = Append(@, dlErr[i])]
                     ELSE errorCalls
    /\ qwg' = qwg - 1
    /\ worker' = [worker EXCEPT ![i] = "done"]
    /\ UNCHANGED <<qpc, nItems, hasProgress, hasError, spawned, mu, completed, dlErr,
                   progressArgs, finalArgs, qret>>
    /\ UNCHANGED <<pipeVars, bulkVars, installVars, allVars, versionVars, tripVars, sortVars, flowVars>>

\* lines 211-218: wg.Wait() returns, the final progress report, return nil
FinalReport ==
    /\ qpc = "spawn"
    /\ spawned = nItems
    /\ WaitReturns(qwg)
    /\ finalArgs' = IF hasProgress THEN Append(finalArgs, completed) ELSE finalArgs
    /\ qpc' = "returned"
    /\ qret' = ExecuteResult({dlErr[i] : i \in 1..nItems})
    /\ UNCHANGED <<nItems, hasProgress, hasError, spawned, worker, mu, completed, qwg,
                   dlErr, progressArgs, errorCalls>>
    /\ UNCHANGED <<pipeVars, bulkVars, installVars, allVars, versionVars, tripVars, sortVars, flowVars>>

QueueNext ==
    \/ ExecuteEmpty
    \/ SpawnWorker
    \/ FinalReport
    \/ \E i \in ItemIds :
          \/ ProgressBegin(i)
          \/ ProgressEnd(i)
          \/ DownloadStart(i)
          \/ DownloadReturn(i)
          \/ CountCompleted(i)
          \/ WorkerFinish(i)

(***************************************************************************)
(* ParallelDownloader.DownloadAll (pkg/download).                          *)
(***************************************************************************)
\* the names of the items given: two names in turn, so that a third item
\* carries the name of the first
ItemName(i) == IF i % 2 = 1 THEN "a" ELSE "b"

\* BulkheadResult
BulkheadResult(name, err) == [Name |-> name, Error |-> err]

\* a variant in which the Done channel is never ready
CtxDoneNever(ctx) == FALSE

\* pd.ctx.Done() is ready
CtxDone(ctx) == ctx = "cancelled"

\* no DownloadAll in progress
DownloadAllIdle ==
    /\ dpc = "idle"
    /\ dctx = "background"
    /\ dnames = <<>>
    /\ dnext = 1
    /\ dworker = [i \in ItemIds |-> "none"]
    /\ derr = [i \in ItemIds |-> "none"]
    /\ dwg = 0
    /\ dchan = <<>>
    /\ dclosed = FALSE
    /\ dresults = <<>>
    /\ dret = "none"

\* NewParallelDownloader or NewParallelDownloaderWithContext, then DownloadAll(items, fn)
\* entered; the context handed in may already be cancelled
DownloadAllInit ==
    /\ maxConcurrent \in 0..MaxConcurrent
    /\ semCap = NewBulkheadCap(NewParallelDownloaderMax(maxConcurrent))
    /\ semaphore = 0
    /\ bwg = 0
    /\ task = [t \in TaskIds |-> NewTask]
    /\ waiter = "idle"
    /\ waitSeen = {}
    /\ dpc = "dispatch"
    /\ dctx \in {"background", "live", "cancelled"}
    /\ dnames \in {[i \in 1..n |-> ItemName(i)] : n \in 0..MaxItems}
    /\ dnext = 1
    /\ dworker = [i \in ItemIds |-> "none"]
    /\ derr = [i \in ItemIds |-> "none"]
    /\ dwg = 0
    /\ dchan = <<>>
    /\ dclosed = FALSE
    /\ dresults = <<>>
    /\ dret = "none"

\* the context given to NewParallelDownloaderWithContext is cancelled by its owner
CancelContext ==
    /\ dpc \in {"dispatch", "collect"}
    /\ dctx = "live"
    /\ dctx' = "cancelled"
    /\ UNCHANGED <<dpc, dnames, dnext, dworker, derr, dwg, dchan, dclosed, dresults, dret>>
    /\ UNCHANGED <<pipeVars, bulkVars, queueVars, installVars, versionVars, tripVars, sortVars, flowVars>>

\* lines 98-104: the loop finds the context done and returns results, pd.ctx.Err()
DispatchCancelled ==
    /\ dpc = "dispatch"
    /\ dnext <= Len(dnames)
    /\ CtxDone(dctx)
    /\ dret' = "context canceled"
    /\ dpc' = "returned"
    /\ UNCHANGED <<dctx, dnames, dnext, dworker, derr, dwg, dchan, dclosed, dresults>>
    /\ UNCHANGED <<pipeVars, bulkVars, queueVars, installVars, versionVars, tripVars, sortVars, flowVars>>

\* lines 106-107: wg.Add(1) and the goroutine of the item
Dispatch ==
    /\ dpc = "dispatch"
    /\ dnext <= Len(dnames)
    /\ ~CtxDone(dctx)
    /\ dwg' = dwg + 1
    /\ dworker' = [dworker EXCEPT ![dnext] = "blocked"]
    /\ dnext' = dnext + 1
    /\ UNCHANGED <<dpc, dctx, dnames, derr, dchan, dclosed, dresults, dret>>
    /\ UNCHANGED <<pipeVars, bulkVars, queueVars, installVars, versionVars, tripVars, sortVars, flowVars>>

\* lines 127-135: the loop is over; the closing goroutine is started and the
\* caller starts to receive
DispatchEnd ==
    /\ dpc = "dispatch"
    /\ dnext > Len(dnames)
    /\ dpc' = "collect"
    /\ UNCHANGED <<dctx, dnames, dnext, dworker, derr, dwg, dchan, dclosed, dresults, dret>>
    /\ UNCHANGED <<pipeVars, bulkVars, queueVars, installVars, versionVars, tripVars, sortVars, flowVars>>

\* lines 110-119: the send on the semaphore succeeds; the unit checks the context
\* and either ends with its error or calls downloadFunc(item)
UnitStart(i) ==
    /\ dworker[i] = "blocked"
    /\ CanSend(semaphore, semCap)
    /\ semaphore' = semaphore + 1
    /\ IF CtxDone(dctx)
       THEN /\ derr' = [derr EXCEPT ![i] = "context canceled"]
            /\ dworker' = [dworker EXCEPT ![i] = "ending"]
       ELSE /\ dworker' = [dworker EXCEPT ![i] = "running"]
            /\ UNCHANGED derr
    /\ UNCHANGED <<maxConcurrent, semCap, bwg, task, waiter, waitSeen>>
    /\ UNCHANGED <<dpc, dctx, dnames, dnext, dwg, dchan, dclosed, dresults, dret>>
    /\ UNCHANGED <<pipeVars, queueVars, installVars, versionVars, tripVars, sortVars, flowVars>>

\* line 118: downloadFunc(item) returns, with or without an error
UnitReturn(i) ==
    /\ dworker[i] = "running"
    /\ \E e \in {"nil", "error"} : derr' = [derr EXCEPT ![i] = e]
    /\ dworker' = [dworker EXCEPT ![i] = "ending"]
    /\ UNCHANGED <<dpc, dctx, dnames, dnext, dwg, dchan, dclosed, dresults, dret>>
    /\ UNCHANGED <<pipeVars, bulkVars, queueVars, installVars, versionVars, tripVars, sortVars, flowVars>>

\* Execute's deferred receive frees the slot; lines 121-124 send the result
\* (the channel has room for every item) and the deferred wg.Done() runs
UnitPublish(i) ==
    /\ dworker[i] = "ending"
    /\ semaphore' = IF ReleasesSlot(derr[i]) THEN semaphore - 1 ELSE semaphore
    /\ dchan' = Append(dchan, BulkheadResult(dnames[i], derr[i]))
    /\ dwg' = dwg - 1
    /\ dworker' = [dworker EXCEPT ![i] = "done"]
    /\ UNCHANGED <<maxConcurrent, semCap, bwg, task, waiter, waitSeen>>
    /\ UNCHANGED <<dpc, dctx, dnames, dnext, derr, dclosed, dresults, dret>>
    /\ UNCHANGED <<pipeVars, queueVars, installVars, versionVars, tripVars, sortVars, flowVars>>

\* lines 128-131: wg.Wait() returns in the closing goroutine, close(resultChan)
CloseResults ==
    /\ dpc = "collect"
    /\ ~dclosed
    /\ WaitReturns(dwg)
    /\ dclosed' = TRUE
    /\ UNCHANGED <<dpc, dctx, dnames, dnext, dworker, derr, dwg, dchan, dresults, dret>>
    /\ UNCHANGED <<pipeVars, bulkVars, queueVars, installVars, versionVars, tripVars, sortVars, flowVars>>

\* lines 134-136: a result is received and appended
Collect ==
    /\ dpc = "collect"
    /\ dchan # <<>>
    /\ dresults' = Append(dresults, Head(dchan))
    /\ dchan' = Tail(dchan)
    /\ UNCHANGED <<dpc, dctx, dnames, dnext, dworker, derr, dwg, dclosed, dret>>
    /\ UNCHANGED <<pipeVars, bulkVars, queueVars, installVars, versionVars, tripVars, sortVars, flowVars>>

\* lines 134-139: the channel is closed and drained; return results, nil
CollectEnd ==
    /\ dpc = "collect"
    /\ dchan = <<>>
    /\ dclosed
    /\ dret' = "nil"
    /\ dpc' = "returned"
    /\ UNCHANGED <<dctx, dnames, dnext, dworker, derr, dwg, dchan, dclosed, dresults>>
    /\ UNCHANGED <<pipeVars, bulkVars, queueVars, installVars, versionVars, tripVars, sortVars, flowVars>>

DownloadAllNext ==
    \/ CancelContext
    \/ DispatchCancelled
    \/ Dispatch
    \/ DispatchEnd
    \/ CloseResults
    \/ Collect
    \/ CollectEnd
    \/ \E i \in ItemIds :
          \/ UnitStart(i)
          \/ UnitReturn(i)
          \/ UnitPublish(i)

(***************************************************************************)
(* Strings, as sequences of characters, and path/filepath.                 *)
(***************************************************************************)
Min(a, b) == IF a <= b THEN a ELSE b

\* all strings over the alphabet of at most n characters
StringsUpTo(alphabet, n) == UNION {[1..k -> alphabet] : k \in 0..n}

\* strings.HasPrefix
HasPrefix(s, prefix) ==
    /\ Len(prefix) <= Len(s)
    /\ SubSeq(s, 1, Len(prefix)) = prefix

\* strings.Contains
Contains(s, sub) ==
    \E i \in 1..(Len(s) - Len(sub) + 1) : SubSeq(s, i, i + Len(sub) - 1) = sub

\* filepath.IsAbs (Unix)
IsAbs(path) == HasPrefix(path, <<"/">>)

RECURSIVE Segments(_, _, _)
\* the non-empty elements of s between separators, read from position i on;
\* cur is the element being read
Segments(s, i, cur) ==
    IF i > Len(s)
    THEN IF cur = <<>> THEN <<>> ELSE <<cur>>
    ELSE IF s[i] = "/"
         THEN IF cur = <<>> THEN Segments(s, i + 1, <<>>)
                            ELSE <<cur>> \o Segments(s, i + 1, <<>>)
         ELSE Segments(s, i + 1, Append(cur, s[i]))

DotDot == <<".", ".">>

RECURSIVE Normalize(_, _, _)
\* filepath.Clean's rules on elements: drop ".", let ".." cancel the element
\* before it, drop ".." at the root, keep leading ".." of a relative path
Normalize(segs, rooted, out) ==
    IF segs = <<>> THEN out
    ELSE LET x == Head(segs) IN
         IF x = <<".">> THEN Normalize(Tail(segs), rooted, out)
         ELSE IF x = DotDot
              THEN IF out # <<>> /\ out[Len(out)] # DotDot
                   THEN Normalize(Tail(segs), rooted, SubSeq(out, 1, Len(out) - 1))
                   ELSE IF rooted THEN Normalize(Tail(segs), rooted, out)
                                  ELSE Normalize(Tail(segs), rooted, Append(out, x))
              ELSE Normalize(Tail(segs), rooted, Append(out, x))

RECURSIVE JoinElements(_)
\* the elements written with one separator between them
JoinElements(segs) ==
    IF segs = <<>> THEN <<>>
    ELSE IF Len(segs) = 1 THEN segs[1]
         ELSE segs[1] \o <<"/">> \o JoinElements(Tail(segs))

\* filepath.Clean
Clean(path) ==
    IF path = <<>> THEN <<".">>
    ELSE LET rooted == IsAbs(path)
             out == Normalize(Segments(path, 1, <<>>), rooted, <<>>)
         IN IF rooted THEN <<"/">> \o JoinElements(out)
            ELSE IF out = <<>> THEN <<".">> ELSE JoinElements(out)

\* filepath.Join of two elements
Join(a, b) ==
    IF a # <<>> THEN Clean(a \o <<"/">> \o b)
    ELSE IF b # <<>> THEN Clean(b) ELSE <<>>

(***************************************************************************)
(* The example plugins: message-filter, media-converter, s3-uploader.      *)
(* A message's content is a sequence of words; a property value is a pair  *)
(* of its dynamic type and its printed form.                               *)
(***************************************************************************)
\* the keywords FilterPlugin.ShouldExecute looks for
Keywords == {"convert", "upload", "process", "help"}

\* words a message is made of
Words == Keywords \cup {"Convert", "video", "image"}

\* strings.ToLower, word by word
ToLower(content) ==
    [k \in 1..Len(content) |-> IF content[k] = "Convert" THEN "convert" ELSE content[k]]

\* strings.Contains(content, word)
ContainsWord(content, word) == \E k \in 1..Len(content) : content[k] = word

Decline(reason) == [ShouldExecute |-> FALSE, Reason |-> reason]

Accept(reason) == [ShouldExecute |-> TRUE, Reason |-> reason]

\* FilterPlugin.ShouldExecute
FilterShouldExecute(ctx) ==
    IF ctx.Event.Type # "message" THEN Decline("Not a message event")
    ELSE IF \E kw \in Keywords : ContainsWord(ToLower(ctx.Event.Content), kw)
         THEN Accept("Message contains actionable keyword")
         ELSE Decline("No actionable keywords found")

\* FilterPlugin.Process
FilterProcess(ctx) ==
    LET content == ToLower(ctx.Event.Content)
        p0 == ctx.Properties
        p1 == IF ContainsWord(content, "convert")
              THEN SetProperty(p0, "action", StringValue("convert"))
              ELSE p0
        p2 == IF ContainsWord(content, "convert") /\ ContainsWord(content, "video")
              THEN SetProperty(p1, "media_type", StringValue("video"))
              ELSE IF ContainsWord(content, "convert") /\ ContainsWord(content, "image")
                   THEN SetProperty(p1, "media_type", StringValue("image"))
                   ELSE p1
        p3 == IF ContainsWord(content, "upload")
              THEN SetProperty(p2, "needs_upload", BoolValue(TRUE))
              ELSE p2
    IN [Event |-> ctx.Event,
        Properties |-> p3,
        Responses |-> Append(ctx.Responses,
                  Response("message-filter", "status", "Message filtered and categorized",
                           SetProperty(IF HasProperty(p3, "action")
                                       THEN SetProperty(EmptyProps, "detected_action", p3["action"])
                                       ELSE SetProperty(EmptyProps, "detected_action", <<"nil">>),
                                       "timestamp", <<"int64", "now">>)))]

\* ConverterPlugin.ShouldExecute
ConverterShouldExecute(ctx) ==
    LET props == ctx.Properties IN
    IF ~HasProperty(props, "action") \/ props["action"] # StringValue("convert")
    THEN Decline("No conversion action required")
    ELSE IF ~HasProperty(props, "media_type") THEN Decline("No media type specified")
    ELSE IF props["media_type"] \in {StringValue("video"), StringValue("image")}
         THEN Accept("Ready to convert")
         ELSE Decline("Cannot convert media type")

\* variant: the output file is stored under another key
ConverterProcessOtherKey(ctx) ==
    [Event |-> ctx.Event,
     Properties |-> SetProperty(SetProperty(ctx.Properties, "output_path",
                                            StringValue("/tmp/converted.mp4")),
                                "conversion_complete", BoolValue(TRUE)),
     Responses |-> Append(ctx.Responses,
                          Response("media-converter", "conversion", "converted", EmptyProps))]

\* ConverterPlugin.Process
ConverterProcess(ctx) ==
    LET mediaType == ctx.Properties["media_type"]
        outputFile == IF mediaType = StringValue("video")
                      THEN "/tmp/converted.mp4" ELSE "/tmp/converted.jpg"
        p1 == SetProperty(ctx.Properties, "file_path", StringValue(outputFile))
        p2 == SetProperty(p1, "conversion_complete", BoolValue(TRUE))
        conversionDetails == SetProperty(EmptyProps, "format",
                                 StringValue(IF mediaType = StringValue("video")
                                             THEN "mp4" ELSE "jpeg"))
        p3 == SetProperty(p2, "conversion_details",
                          <<"map[string]interface{}", conversionDetails>>)
    IN [Event |-> ctx.Event,
        Properties |-> p3,
        Responses |-> Append(ctx.Responses,
                             Response("media-converter", "conversion", outputFile,
                                      conversionDetails))]

\* UploaderPlugin.ShouldExecute
UploaderShouldExecute(ctx) ==
    LET props == ctx.Properties IN
    IF ~HasProperty(props, "needs_upload") \/ props["needs_upload"] # BoolValue(TRUE)
    THEN Decline("Upload not required")
    ELSE IF ~HasProperty(props, "file_path") THEN Decline("No file to upload")
    ELSE Accept("File ready for upload")

\* UploaderPlugin.Process
UploaderProcess(ctx) ==
    LET filePath == IF HasProperty(ctx.Properties, "file_path")
                       /\ ctx.Properties["file_path"][1] = "string"
                    THEN ctx.Properties["file_path"][2] ELSE ""
        p1 == SetProperty(ctx.Properties, "uploaded_url", <<"string", "s3", filePath>>)
        p2 == SetProperty(p1, "upload_timestamp", <<"int64", "now">>)
    IN [Event |-> ctx.Event,
        Properties |-> p2,
        Responses |-> Append(ctx.Responses,
                  Response("s3-uploader", "upload", filePath,
                           SetProperty(SetProperty(EmptyProps, "original", StringValue(filePath)),
                                       "size_bytes", <<"int", "51200">>)))]

\* GRPCServer.ShouldExecute on the request, by the plugin the process serves
ServerShouldExecute(name, req) ==
    LET ctx == ProtoToContext(req) IN
    CASE name = "message-filter" -> FilterShouldExecute(ctx)
      [] name = "media-converter" -> ConverterShouldExecute(ctx)
      [] OTHER -> UploaderShouldExecute(ctx)

\* GRPCServer.Process on the request, by the plugin the process serves
ServerProcess(name, req) ==
    LET inputContext == ProtoToContext(req) IN
    CASE name = "message-filter" -> ContextToProto(FilterProcess(inputContext))
      [] name = "media-converter" -> ContextToProto(ConverterProcess(inputContext))
      [] OTHER -> ContextToProto(UploaderProcess(inputContext))

\* the metadata the three plugins answer GetMetadata with
ExampleMetadata ==
    {Metadata("message-filter", "1.0.0", 10),
     Metadata("media-converter", "1.0.0", 30),
     Metadata("s3-uploader", "1.0.0", 50)}

\* the events handed to ProcessEvent
ExampleEvents ==
    {NewEvent(t, c, EmptyProps) : t \in EventTypes, c \in StringsUpTo(Words, MaxWords)}

\* the three plugin binaries are discovered, in any order
ExampleInit ==
    /\ pc = "load"
    /\ event \in ExampleEvents
    /\ nDisc = 3
    /\ meta \in [PluginIds -> ExampleMetadata \cup {MetaFailed}]
    /\ \A i \in PluginIds : (i > nDisc) = (meta[i] = MetaFailed)
    /\ \A i, j \in 1..nDisc : i # j => meta[i] # meta[j]
    /\ loads = <<>>
    /\ loadIdx = 1
    /\ plugins = <<>>
    /\ idx = 0
    /\ context = NewContext(event)
    /\ kills = [i \in PluginIds |-> 0]
    /\ calls = <<>>
    /\ ret = NoReturn

\* lines 135-143, the handle's call answered by the plugin itself
ExampleDecide ==
    /\ pc = "loop"
    /\ idx <= Len(plugins)
    /\ LET h == plugins[idx]
           decision == ServerShouldExecute(Name(h), ContextToProto(context))
       IN /\ calls' = Append(calls,
                   Call("decide", h, "ok", decision.Reason,
                        IF decision.ShouldExecute THEN "accept" ELSE "decline",
                        context, context, idx))
          /\ pc' = NextAfterDecision(decision)
          /\ idx' = IF pc' = "loop" THEN idx + 1 ELSE idx
    /\ UNCHANGED <<ret, event, nDisc, meta, loads, loadIdx, plugins, context, kills>>
    /\ UNCHANGED <<bulkVars, queueVars, installVars, allVars, versionVars, tripVars, sortVars, flowVars>>

\* lines 147-157, the handle's call answered by the plugin itself
ExampleProcess ==
    /\ pc = "process"
    /\ LET h == plugins[idx]
           proto == ServerProcess(Name(h), ContextToProto(context))
       IN /\ context' = ContextAfterProcess(context, ProtoToContext(proto), FALSE)
          /\ calls' = Append(calls, Call("process", h, "ok", "", "ok", context, context', idx))
    /\ pc' = "loop"
    /\ idx' = idx + 1
    /\ UNCHANGED <<ret, event, nDisc, meta, loads, loadIdx, plugins, kills>>
    /\ UNCHANGED <<bulkVars, queueVars, installVars, allVars, versionVars, tripVars, sortVars, flowVars>>

\* MinCLIVersion and MaxCLIVersion of the three example plugins
ExampleBounds == <<VersionString(1, 0, 0), VersionString(2, 0, 0)>>

\* one of the three binaries is started and dispensed: it answers with its own
\* metadata, and the version check decides whether it is loaded
ExampleLoadPlugin == LoadPluginOf({meta[loadIdx]}, {"dispensed"}, {ExampleBounds})

ExampleNext ==
    \/ ExampleLoadPlugin
    \/ SortPlugins
    \/ ExampleDecide
    \/ ExampleProcess
    \/ CleanupPlugins

(***************************************************************************)
(* A Context converted to its wire form and back.                          *)
(***************************************************************************)
\* values as json.Unmarshal yields them: nil, bool, float64, string, and
\* []interface{} and map[string]interface{} of such
DecodedValues ==
    {<<"nil">>, BoolValue(TRUE), <<"float64", "42">>, StringValue("value"),
     <<"[]interface{}", <<StringValue("a"), <<"float64", "1">>>>>>,
     <<"map[string]interface{}", SetProperty(EmptyProps, "key", StringValue("value"))>>}

\* other values json.Marshal writes: integers, a slice of strings, a map that
\* holds an integer
EncodableValues ==
    {<<"int", "42">>, <<"int64", BigInt>>, <<"[]string", <<"a">>>>,
     <<"map[string]interface{}", SetProperty(EmptyProps, "key", <<"int", "1">>)>>}

\* values json.Marshal refuses
RefusedValues == {<<"func", "callback">>}

GoValues == DecodedValues \cup EncodableValues \cup RefusedValues

PropertyKeys == {"prop1", "prop2", "prop3"}

\* the maps of at most n keys with values from the given set
MapsUpTo(keys, values, n) ==
    UNION {[ks -> values] : ks \in {x \in SUBSET keys : Cardinality(x) <= n}}

\* the Responses a Context may hold
ResponseValues ==
    {Response("test-plugin", "test", "test response", data) :
        data \in {SetProperty(EmptyProps, "key", StringValue("value")),
                  SetProperty(EmptyProps, "key", <<"int", "1">>)}}

\* the values an Event's Metadata may hold
MetadataValues == {<<"float64", "42">>, <<"int", "42">>, <<"func", "callback">>}

\* no conversion in progress
RoundTripIdle ==
    /\ tpc = "idle"
    /\ tctx = NilContext
    /\ tres = NilContext

\* a Context about to be converted
RoundTripInit ==
    /\ tpc = "start"
    /\ \E type \in EventTypes, metadata \in MapsUpTo({"number"}, MetadataValues, 1),
          props \in MapsUpTo(PropertyKeys, GoValues, MaxProps),
          responses \in StringsUpTo(ResponseValues, MaxResponses) :
            tctx = [Event |-> NewEvent(type, "round trip test", metadata),
                    Properties |-> props,
                    Responses |-> responses]
    /\ tres = NilContext

\* result := ProtoToContext(ContextToProto(original))
RoundTrip ==
    /\ tpc = "start"
    /\ tres' = ProtoToContext(ContextToProto(tctx))
    /\ tpc' = "done"
    /\ UNCHANGED tctx
    /\ UNCHANGED <<pipeVars, bulkVars, queueVars, installVars, allVars, versionVars, sortVars, flowVars>>

RoundTripNext == RoundTrip

\* no IsCompatible call in progress
VersionIdle ==
    /\ vpc = "idle"
    /\ vin = [cli |-> <<>>, min |-> <<>>, max |-> <<>>]
    /\ vres = IsCompatibleResult(FALSE, "none")

\* IsCompatible entered; an empty minimum or maximum means no bound
VersionInit ==
    /\ vpc = "start"
    /\ vin \in [cli : GoodVersions \cup BadVersions \cup {<<>>},
                min : GoodVersions \cup BadVersions \cup {<<>>},
                max : GoodVersions \cup BadVersions \cup {<<>>}]
    /\ vres = IsCompatibleResult(FALSE, "none")

\* the whole of IsCompatible
CheckCompatible ==
    /\ vpc = "start"
    /\ vres' = IsCompatible(vin.cli, vin.min, vin.max)
    /\ vpc' = "done"
    /\ UNCHANGED vin
    /\ UNCHANGED <<pipeVars, bulkVars, queueVars, installVars, allVars, tripVars, sortVars, flowVars>>

VersionNext == CheckCompatible

(***************************************************************************)
(* extractTarGz (cmd/cli/commands, download).                              *)
(***************************************************************************)
PathChars == {"/", ".", "a"}

\* entry names an archive may carry
EntryNames == StringsUpTo(PathChars, MaxNameLen)

\* destination directories: relative, absolute, with a trailing separator, the
\* working directory, its parent, the root
DestPaths == {<<"a">>, <<"/", "a">>, <<"a", "/">>, <<".">>, <<".", ".">>, <<"/">>}

\* sizes of a regular entry's payload, around the cap
EntrySizes == {0, MaxFileSize - 1, MaxFileSize, MaxFileSize + 1}

\* tar headers: directories, regular files, and other types (links, devices)
Headers ==
    {[Name |-> n, Typeflag |-> t, Size |-> 0] : n \in EntryNames, t \in {"dir", "other"}}
    \cup {[Name |-> n, Typeflag |-> "reg", Size |-> z] : n \in EntryNames, z \in EntrySizes}

\* which system call of the entry's extraction fails, if any
IoFaults == {"none", "create", "copy", "chmod"}

\* variant: the ".." test left out
EntryAllowedNoDotDotCheck(name, dest) ==
    /\ ~IsAbs(name)
    /\ HasPrefix(Join(dest, name), Clean(dest) \o <<"/">>)

\* lines 256-264: the two checks an entry passes before anything is written
EntryAllowed(name, dest) ==
    /\ ~(Contains(name, DotDot) \/ IsAbs(name))
    /\ HasPrefix(Join(dest, name), Clean(dest) \o <<"/">>)

\* io.CopyN(dst, src, n) on a source of the given size: bytes copied and error
CopyN(size, n) ==
    [written |-> Min(size, n), err |-> IF size < n THEN "EOF" ELSE "nil"]

Outcome(kind, writes, bytes, failed) ==
    [kind |-> kind, writes |-> writes, bytes |-> bytes, err |-> failed]

\* lines 256-287: one iteration of the loop, on header hdr
ExtractEntry(dest, hdr, fault) ==
    IF ~EntryAllowed(hdr.Name, dest)
    THEN Outcome("skipped", {}, 0, FALSE)
    ELSE LET target == Join(dest, hdr.Name) IN
         CASE hdr.Typeflag = "dir" ->
                 IF fault = "create"
                 THEN Outcome("error", {}, 0, TRUE)
                 ELSE Outcome("dir", {target}, 0, FALSE)
           [] hdr.Typeflag = "reg" ->
                 IF fault = "create"
                 THEN Outcome("error", {}, 0, TRUE)
                 ELSE LET c == CopyN(hdr.Size, MaxFileSize) IN
                      IF fault = "copy"
                      THEN Outcome("error", {target}, 0, TRUE)
                      ELSE IF c.err # "nil" /\ c.err # "EOF"
                           THEN Outcome("error", {target}, c.written, TRUE)
                           ELSE IF fault = "chmod"
                                THEN Outcome("error", {target}, c.written, TRUE)
                                ELSE Outcome("file", {target}, c.written, FALSE)
           [] OTHER -> Outcome("ignored", {}, 0, FALSE)

NoHeader == [Name |-> <<>>, Typeflag |-> "none", Size |-> 0]

NoOutcome == Outcome("none", {}, 0, FALSE)

\* no extraction in progress
ExtractIdle ==
    /\ xpc = "idle"
    /\ xdest = <<"a">>
    /\ xlast = NoHeader
    /\ xout = NoOutcome

\* extractTarGz entered, the archive opened
ExtractInit ==
    /\ xpc = "reading"
    /\ xdest \in DestPaths
    /\ xlast = NoHeader
    /\ xout = NoOutcome

\* line 248: tarReader.Next() yields the next header
ExtractNext ==
    /\ xpc = "reading"
    /\ \E hdr \in Headers : xlast' = hdr
    /\ xout' = NoOutcome
    /\ xpc' = "entry"
    /\ UNCHANGED <<xdest, checksumVars>>
    /\ UNCHANGED <<pipeVars, bulkVars, queueVars, allVars, versionVars, tripVars, sortVars, flowVars>>

\* lines 256-287: the entry is skipped or written; an error ends extractTarGz
ExtractHandle ==
    /\ xpc = "entry"
    /\ \E fault \in IoFaults : xout' = ExtractEntry(xdest, xlast, fault)
    /\ xpc' = IF xout'.err THEN "failed" ELSE "handled"
    /\ UNCHANGED <<xdest, xlast, checksumVars>>
    /\ UNCHANGED <<pipeVars, bulkVars, queueVars, allVars, versionVars, tripVars, sortVars, flowVars>>

\* line 247: the loop goes round
ExtractLoop ==
    /\ xpc = "handled"
    /\ xpc' = "reading"
    /\ xlast' = NoHeader
    /\ xout' = NoOutcome
    /\ UNCHANGED <<xdest, checksumVars>>
    /\ UNCHANGED <<pipeVars, bulkVars, queueVars, allVars, versionVars, tripVars, sortVars, flowVars>>

\* lines 249-254: io.EOF ends the loop and nil is returned; another error is returned
ExtractEnd ==
    /\ xpc = "reading"
    /\ \E e \in {"EOF", "error"} : xpc' = IF e = "EOF" THEN "done" ELSE "failed"
    /\ UNCHANGED <<xdest, xlast, xout, checksumVars>>
    /\ UNCHANGED <<pipeVars, bulkVars, queueVars, allVars, versionVars, tripVars, sortVars, flowVars>>

ExtractNextStep == ExtractNext \/ ExtractHandle \/ ExtractLoop \/ ExtractEnd

(***************************************************************************)
(* verifyFileChecksum (cmd/cli/commands, download).                        *)
(***************************************************************************)
Whitespace == {" ", "nl"}

HexChars == {"a", "b"}

\* contents of the fetched checksum resource
Bodies == StringsUpTo(HexChars \cup Whitespace, MaxBodyLen)

\* hex digests of the local archive
Digests == [1..DigestLen -> HexChars]

RECURSIVE Fields(_, _, _)
\* strings.Fields: the maximal runs of non-space characters of s, from position i on
Fields(s, i, cur) ==
    IF i > Len(s)
    THEN IF cur = <<>> THEN <<>> ELSE <<cur>>
    ELSE IF s[i] \in Whitespace
         THEN IF cur = <<>> THEN Fields(s, i + 1, <<>>)
                            ELSE <<cur>> \o Fields(s, i + 1, <<>>)
         ELSE Fields(s, i + 1, Append(cur, s[i]))

\* variant: the last field is taken for the checksum
ExpectedChecksumLast(parts) == parts[Len(parts)]

\* line 208: expectedChecksum := parts[0]
ExpectedChecksum(parts) == parts[1]

\* lines 186-230, on the outcome of http.Get, the response and the local file
VerifyFileChecksum(in) ==
    IF in.httpErr THEN "get_error"
    ELSE IF in.status # StatusOK THEN "checksum file not found"
    ELSE LET parts == Fields(in.body, 1, <<>>) IN
         IF Len(parts) < 1 THEN "invalid checksum format"
         ELSE IF ~in.fileOK THEN "open_error"
         ELSE IF in.digest # ExpectedChecksum(parts) THEN "checksum mismatch"
         ELSE "nil"

\* no verification in progress
ChecksumIdle ==
    /\ cpc = "idle"
    /\ cin = [httpErr |-> FALSE, status |-> StatusOK, body |-> <<>>, fileOK |-> TRUE,
              digest |-> [k \in 1..DigestLen |-> "a"]]
    /\ cres = "none"

\* verifyFileChecksum entered
ChecksumInit ==
    /\ cpc = "start"
    /\ cin \in [httpErr : BOOLEAN, status : {StatusOK, 404}, body : Bodies,
                fileOK : BOOLEAN, digest : Digests]
    /\ cres = "none"

\* the whole of verifyFileChecksum
Verify ==
    /\ cpc = "start"
    /\ cres' = VerifyFileChecksum(cin)
    /\ cpc' = "done"
    /\ UNCHANGED <<cin, extractVars>>
    /\ UNCHANGED <<pipeVars, bulkVars, queueVars, allVars, versionVars, tripVars, sortVars, flowVars>>

ChecksumNext == Verify

(***************************************************************************)
(* The sort of ProcessEvent, comparison by comparison. Every call of the    *)
(* comparator calls Priority() on two handles, and every Priority() is a    *)
(* GetMetadata call to the plugin process. sort.Slice sorts a slice of up   *)
(* to twelve elements by insertion.                                        *)
(***************************************************************************)
\* priorities the plugins report through GetMetadata
SortPriorities == {10, 50}

\* no sort in progress
SortIdle == sorting = [pc |-> "idle"]

\* loadAllPlugins returned n handles, in discovery order.
\*   pc     position inside ProcessEvent: sorting, ranging, returned
\*   n      number of loaded plugins
\*   prio   per plugin process: the priority its GetMetadata reports
\*   data   the slice being sorted, handles by id
\*   i, j   the outer and inner index of the sort; i is then the index of the range loop
\*   reads  per handle: what each of its Priority() calls returned, in order
SortInit ==
    \E n \in 0..MaxPlugins, prio \in [PluginIds -> SortPriorities] :
        /\ \A h \in PluginIds : h > n => prio[h] = 10
        /\ sorting = [pc |-> "sort", n |-> n, prio |-> prio, data |-> [k \in 1..n |-> k],
                      i |-> 2, j |-> 2, reads |-> [h \in PluginIds |-> <<>>]]

\* GRPCClient.Priority: what one call may return, the reported priority or, when
\* the GetMetadata call fails, the default
PriorityAnswers(h) == {sorting.prio[h], DefaultPriority}

\* data.Swap(j, j-1)
SwapDown(data, j) == [data EXCEPT ![j] = data[j - 1], ![j - 1] = data[j]]

\* one call of the comparator, less(j, j-1), inside the insertion sort, and the
\* swap that follows it when it answers true
CompareStep ==
    /\ sorting.pc = "sort"
    /\ sorting.i <= sorting.n
    /\ LET upper == sorting.data[sorting.j]
           lower == sorting.data[sorting.j - 1]
       IN \E a \in PriorityAnswers(upper), b \in PriorityAnswers(lower) :
             LET read == [sorting.reads EXCEPT ![upper] = Append(@, a), ![lower] = Append(@, b)]
             IN IF a < b
                THEN IF sorting.j - 1 > 1
                     THEN sorting' = [sorting EXCEPT !.reads = read,
                                                     !.data = SwapDown(@, sorting.j),
                                                     !.j = @ - 1]
                     ELSE sorting' = [sorting EXCEPT !.reads = read,
                                                     !.data = SwapDown(@, sorting.j),
                                                     !.i = @ + 1,
                                                     !.j = sorting.i + 1]
                ELSE sorting' = [sorting EXCEPT !.reads = read,
                                                !.i = @ + 1,
                                                !.j = sorting.i + 1]
    /\ UNCHANGED <<pipeVars, bulkVars, queueVars, installVars, allVars, versionVars, tripVars, flowVars>>

\* sort.Slice returns; the range loop starts
SortReturns ==
    /\ sorting.pc = "sort"
    /\ sorting.i > sorting.n
    /\ sorting' = [sorting EXCEPT !.pc = "loop", !.i = 1]
    /\ UNCHANGED <<pipeVars, bulkVars, queueVars, installVars, allVars, versionVars, tripVars, flowVars>>

\* one iteration of the range loop: the log line calls Priority() on the handle
VisitStep ==
    /\ sorting.pc = "loop"
    /\ sorting.i <= sorting.n
    /\ \E a \in PriorityAnswers(sorting.data[sorting.i]) :
          sorting' = [sorting EXCEPT !.reads[sorting.data[sorting.i]] = Append(@, a),
                                     !.i = @ + 1]
    /\ UNCHANGED <<pipeVars, bulkVars, queueVars, installVars, allVars, versionVars, tripVars, flowVars>>

\* the loop is over
SortedRunReturns ==
    /\ sorting.pc = "loop"
    /\ sorting.i > sorting.n
    /\ sorting' = [sorting EXCEPT !.pc = "done"]
    /\ UNCHANGED <<pipeVars, bulkVars, queueVars, installVars, allVars, versionVars, tripVars, flowVars>>

SortNext == CompareStep \/ SortReturns \/ VisitStep \/ SortedRunReturns

(***************************************************************************)
(* runInstallAll (cmd/cli/commands, install): DownloadQueue.Execute run    *)
(* with the error callback that appends to `failed` and the download       *)
(* function that appends to lock.Plugins. An append reads the slice and    *)
(* then writes the longer one back.                                        *)
(***************************************************************************)
\* lines 79-84: the parallel flag is limited to 1..10
LimitParallel(parallel) ==
    IF parallel < 1 THEN 1 ELSE IF parallel > 10 THEN 10 ELSE parallel

\* no install in progress
FlowIdle == install = [pc |-> "idle"]

\* lines 130-153: the queue is built and filled with at least one item, both
\* callbacks are set, `failed` and lock.Plugins are empty.
\*   pc         position of runInstallAll: spawning and waiting, returned
\*   n          len(downloadItems)
\*   cap, sem   the bulkhead's semaphore: its capacity, the slots taken
\*   update     the update-lock flag
\*   spawned    goroutines started so far
\*   worker     per item: position of its goroutine
\*   err        per item: what installPluginWithItem returned
\*   mu         the mutex of Execute: 0 when free
\*   completed  the completed counter of Execute
\*   read       per item: the slice its append read and has not yet written back
\*   lock       lock.Plugins, items by id
\*   failed     failed, items by id
FlowInit ==
    \E n \in 1..MaxItems, parallel \in 0..MaxConcurrent, update \in BOOLEAN :
        install = [pc |-> "spawn", n |-> n,
                   cap |-> NewBulkheadCap(NewParallelDownloaderMax(LimitParallel(parallel))),
                   sem |-> 0, update |-> update, spawned |-> 0,
                   worker |-> [i \in ItemIds |-> "none"],
                   err |-> [i \in ItemIds |-> "none"],
                   mu |-> 0, completed |-> 0,
                   read |-> [i \in ItemIds |-> <<>>],
                   lock |-> <<>>, failed |-> <<>>]

\* Execute lines 184-186: the goroutine of the next item is started
FlowSpawn ==
    /\ install.pc = "spawn"
    /\ install.spawned < install.n
    /\ install' = [install EXCEPT !.spawned = @ + 1,
                                  !.worker[install.spawned + 1] = "lock"]
    /\ UNCHANGED <<pipeVars, bulkVars, queueVars, installVars, allVars, versionVars, tripVars, sortVars>>

\* Execute lines 190-194: the progress callback, which prints a line, under mu
FlowProgress(i) ==
    /\ install.pc = "spawn"
    /\ install.worker[i] = "lock"
    /\ CanLock(install.mu)
    /\ install' = [install EXCEPT !.worker[i] = "blocked"]
    /\ UNCHANGED <<pipeVars, bulkVars, queueVars, installVars, allVars, versionVars, tripVars, sortVars>>

\* Bulkhead.Execute line 28: a slot is taken and the download function starts
FlowAcquire(i) ==
    /\ install.pc = "spawn"
    /\ install.worker[i] = "blocked"
    /\ CanSend(install.sem, install.cap)
    /\ install' = [install EXCEPT !.sem = @ + 1, !.worker[i] = "install"]
    /\ UNCHANGED <<pipeVars, bulkVars, queueVars, installVars, allVars, versionVars, tripVars, sortVars>>

\* install.go lines 155-168: installPluginWithItem returns. On an error, or without
\* update-lock, the download function returns and the slot is given back;
\* otherwise the append to lock.Plugins reads the slice
FlowInstall(i) ==
    /\ install.pc = "spawn"
    /\ install.worker[i] = "install"
    /\ \E e \in {"nil", "error"} :
          IF e = "nil" /\ install.update
          THEN install' = [install EXCEPT !.err[i] = e,
                                         !.read[i] = install.lock,
                                         !.worker[i] = "lock_write"]
          ELSE install' = [install EXCEPT !.err[i] = e,
                                         !.sem = @ - 1,
                                         !.worker[i] = "count"]
    /\ UNCHANGED <<pipeVars, bulkVars, queueVars, installVars, allVars, versionVars, tripVars, sortVars>>

\* install.go lines 164-171: lock.Plugins = append(...) writes the slice back, the
\* download function returns nil and the slot is given back
FlowLockWrite(i) ==
    /\ install.pc = "spawn"
    /\ install.worker[i] = "lock_write"
    /\ install' = [install EXCEPT !.lock = Append(install.read[i], i),
                                  !.read[i] = <<>>,
                                  !.sem = @ - 1,
                                  !.worker[i] = "count"]
    /\ UNCHANGED <<pipeVars, bulkVars, queueVars, installVars, allVars, versionVars, tripVars, sortVars>>

\* Execute lines 201-203: completed++ under mu
FlowCount(i) ==
    /\ install.pc = "spawn"
    /\ install.worker[i] = "count"
    /\ CanLock(install.mu)
    /\ install' = [install EXCEPT !.completed = CompletedAfter(@, install.err[i]),
                                  !.worker[i] = "counted"]
    /\ UNCHANGED <<pipeVars, bulkVars, queueVars, installVars, allVars, versionVars, tripVars, sortVars>>

\* Execute lines 205-207: for a failed item the error callback begins and its
\* append reads `failed`; for any other the goroutine ends
FlowFinish(i) ==
    /\ install.pc = "spawn"
    /\ install.worker[i] = "counted"
    /\ IF CallsOnError(install.err[i], TRUE)
       THEN install' = [install EXCEPT !.read[i] = install.failed,
                                      !.worker[i] = "failed_write"]
       ELSE install' = [install EXCEPT !.worker[i] = "done"]
    /\ UNCHANGED <<pipeVars, bulkVars, queueVars, installVars, allVars, versionVars, tripVars, sortVars>>

\* install.go lines 141-144: failed = append(failed, name) writes the slice back,
\* the callback returns and the goroutine ends
FlowFailedWrite(i) ==
    /\ install.pc = "spawn"
    /\ install.worker[i] = "failed_write"
    /\ install' = [install EXCEPT !.failed = Append(install.read[i], i),
                                  !.read[i] = <<>>,
                                  !.worker[i] = "done"]
    /\ UNCHANGED <<pipeVars, bulkVars, queueVars, installVars, allVars, versionVars, tripVars, sortVars>>

\* Execute lines 211-218: every goroutine has ended, wg.Wait() and Execute return
FlowReturn ==
    /\ install.pc = "spawn"
    /\ install.spawned = install.n
    /\ \A i \in 1..install.n : install.worker[i] = "done"
    /\ install' = [install EXCEPT !.pc = "returned"]
    /\ UNCHANGED <<pipeVars, bulkVars, queueVars, installVars, allVars, versionVars, tripVars, sortVars>>

FlowNext ==
    \/ FlowSpawn
    \/ FlowReturn
    \/ \E i \in ItemIds :
          \/ FlowProgress(i)
          \/ FlowAcquire(i)
          \/ FlowInstall(i)
          \/ FlowLockWrite(i)
          \/ FlowCount(i)
          \/ FlowFinish(i)
          \/ FlowFailedWrite(i)

InstallIdle == ExtractIdle /\ ChecksumIdle

Next ==
    \/ LoadPlugin
    \/ SortPlugins
    \/ Decide
    \/ Process
    \/ CleanupPlugins

OrderNext ==
    \/ OrderLoadPlugin
    \/ SortPlugins
    \/ OrderDecide
    \/ OrderProcess
    \/ CleanupPlugins

Init == PipelineInit /\ BulkheadIdle /\ QueueIdle /\ InstallIdle /\ DownloadAllIdle /\ VersionIdle /\ RoundTripIdle /\ SortIdle /\ FlowIdle

\* one ProcessEvent over plugins that may answer anything
Spec == Init /\ [][Next]_vars

InitOrder == PipelineInit /\ BulkheadIdle /\ QueueIdle /\ InstallIdle /\ DownloadAllIdle /\ VersionIdle /\ RoundTripIdle /\ SortIdle /\ FlowIdle

\* one ProcessEvent over plugins of any priority
SpecOrder == InitOrder /\ [][OrderNext]_vars

InitExample == ExampleInit /\ BulkheadIdle /\ QueueIdle /\ InstallIdle /\ DownloadAllIdle /\ VersionIdle /\ RoundTripIdle /\ SortIdle /\ FlowIdle

\* one ProcessEvent over the three example plugins
SpecExample == InitExample /\ [][ExampleNext]_vars

\* a Bulkhead shared by callers of Execute and ExecuteAsync
InitBulkhead == PipelineIdle /\ BulkheadInit /\ QueueIdle /\ InstallIdle /\ DownloadAllIdle /\ VersionIdle /\ RoundTripIdle /\ SortIdle /\ FlowIdle

SpecBulkhead == InitBulkhead /\ [][BulkheadNext]_vars

InitExtract == PipelineIdle /\ BulkheadIdle /\ QueueIdle /\ ExtractInit /\ ChecksumIdle /\ DownloadAllIdle /\ VersionIdle /\ RoundTripIdle /\ SortIdle /\ FlowIdle

\* one extractTarGz over an archive
SpecExtract == InitExtract /\ [][ExtractNextStep]_vars

InitChecksum == PipelineIdle /\ BulkheadIdle /\ QueueIdle /\ ExtractIdle /\ ChecksumInit /\ DownloadAllIdle /\ VersionIdle /\ RoundTripIdle /\ SortIdle /\ FlowIdle

\* one verifyFileChecksum
SpecChecksum == InitChecksum /\ [][ChecksumNext]_vars

InitDownloadAll == PipelineIdle /\ QueueIdle /\ InstallIdle /\ DownloadAllInit /\ VersionIdle /\ RoundTripIdle /\ SortIdle /\ FlowIdle

\* one ParallelDownloader.DownloadAll over the items given
SpecDownloadAll == InitDownloadAll /\ [][DownloadAllNext]_vars

InitVersion ==
    PipelineIdle /\ BulkheadIdle /\ QueueIdle /\ InstallIdle /\ DownloadAllIdle /\ VersionInit /\ RoundTripIdle /\ SortIdle /\ FlowIdle

\* one IsCompatible call
SpecVersion == InitVersion /\ [][VersionNext]_vars

InitRoundTrip ==
    PipelineIdle /\ BulkheadIdle /\ QueueIdle /\ InstallIdle /\ DownloadAllIdle /\ VersionIdle
        /\ RoundTripInit /\ SortIdle /\ FlowIdle

\* one Context converted to its wire form and back
SpecRoundTrip == InitRoundTrip /\ [][RoundTripNext]_vars

InitSort ==
    PipelineIdle /\ BulkheadIdle /\ QueueIdle /\ InstallIdle /\ DownloadAllIdle /\ VersionIdle
        /\ RoundTripIdle /\ SortInit /\ FlowIdle

\* the sort and the range loop of one ProcessEvent, the plugins' metadata calls
\* failing at any time
SpecSort == InitSort /\ [][SortNext]_vars

InitFlow ==
    PipelineIdle /\ BulkheadIdle /\ QueueIdle /\ InstallIdle /\ DownloadAllIdle /\ VersionIdle
        /\ RoundTripIdle /\ SortIdle /\ FlowInit

\* one runInstallAll from the creation of the queue on
SpecFlow == InitFlow /\ [][FlowNext]_vars

\* one DownloadQueue.Execute over the queued items
InitQueue == PipelineIdle /\ QueueInit /\ InstallIdle /\ DownloadAllIdle /\ VersionIdle /\ RoundTripIdle /\ SortIdle /\ FlowIdle

SpecQueue == InitQueue /\ [][QueueNext]_vars

\* Execute with at most MaxFairItems items queued
QueueFairInit == QueueInit /\ nItems <= MaxFairItems

InitQueueFair ==
    PipelineIdle /\ QueueFairInit /\ InstallIdle /\ DownloadAllIdle /\ VersionIdle
        /\ RoundTripIdle /\ SortIdle /\ FlowIdle

\* the steps of the caller of Execute
CallerStep == ExecuteEmpty \/ SpawnWorker \/ FinalReport

\* the steps of the goroutine of item i; the one it takes inside downloadFunc is
\* downloadFunc's return
WorkerStep(i) ==
    \/ ProgressBegin(i)
    \/ ProgressEnd(i)
    \/ DownloadStart(i)
    \/ DownloadReturn(i)
    \/ CountCompleted(i)
    \/ WorkerFinish(i)

\* the scheduler lets the caller and every goroutine that can take a step take one
QueueFairness ==
    /\ WF_vars(CallerStep)
    /\ \A i \in ItemIds : WF_vars(WorkerStep(i))

\* one DownloadQueue.Execute under a fair scheduler, every downloadFunc returning
SpecQueueFair == InitQueueFair /\ [][QueueNext]_vars /\ QueueFairness

(***************************************************************************)
(* Properties of the execution pipeline.                                   *)
(***************************************************************************)
Finished == pc \in {"done", "panicked"}

C2_TiesKeepDiscoveryOrder ==
    \A i, j \in 1..Len(calls) :
        (i < j /\ Priority(calls[i].h) = Priority(calls[j].h)) => calls[i].h <= calls[j].h

\* C3: a plugin whose ShouldExecute answers false leaves the working Context as it
\* was, and Process is not called on that plugin.
C3_DeclineLeavesContext ==
    \A k \in 1..Len(calls) :
        (calls[k].op = "decide" /\ calls[k].res = "decline") =>
            /\ calls[k].after = calls[k].before
            /\ \A m \in 1..Len(calls) : ~(calls[m].op = "process" /\ calls[m].h = calls[k].h)
            /\ k = Len(calls) => (pc # "process" /\ context = calls[k].before)

\* a plugin declined after an earlier plugin had already changed the Context
C3_Witness ==
    \E k \in 1..Len(calls) :
        /\ calls[k].op = "decide"
        /\ calls[k].res = "decline"
        /\ calls[k].before # NewContext(event)
        /\ k = Len(calls)

\* C4: a plugin whose Process returns an error leaves the working Context as it
\* was before the call, the loop moves on to the next plugin, and a run that
\* returns has asked every loaded plugin.
C4_ProcessErrorIsolated ==
    /\ \A k \in 1..Len(calls) :
          (calls[k].op = "process" /\ calls[k].res = "error") =>
              /\ calls[k].after = calls[k].before
              /\ k < Len(calls) =>
                    /\ calls[k + 1].op = "decide"
                    /\ calls[k + 1].at = calls[k].at + 1
                    /\ calls[k + 1].before = calls[k].before
              /\ k = Len(calls) =>
                    /\ context = calls[k].before
                    /\ idx = calls[k].at + 1
                    /\ pc \in {"loop", "done"}
    /\ pc = "done" =>
          \A i \in 1..Len(plugins) :
              \E k \in 1..Len(calls) : calls[k].op = "decide" /\ calls[k].h = plugins[i]

\* a Process error on a non-empty Context, followed by ShouldExecute on the next plugin
C4_Witness ==
    \E k \in 1..Len(calls) :
        /\ calls[k].op = "process"
        /\ calls[k].res = "error"
        /\ calls[k].before # NewContext(event)
        /\ k < Len(calls)
        /\ calls[k + 1].op = "decide"

\* C5: when a run has ended, by returning or by a panic in the plugin loop, every
\* loaded handle has been killed exactly once; no handle is killed twice, and no
\* ShouldExecute/Process call is made on a killed handle.
C5_TeardownOnce ==
    /\ Finished => \A i \in 1..Len(plugins) : kills[plugins[i]] = 1
    /\ \A h \in PluginIds : kills[h] <= 1
    /\ \A k \in 1..Len(calls) : calls[k].killed = 0

\* a run ended by a panic with a loaded plugin that was never asked, and one
\* that declined
C5_Witness ==
    /\ pc = "panicked"
    /\ \E i \in 1..Len(plugins) : \A k \in 1..Len(calls) : calls[k].h # plugins[i]
    /\ \E k \in 1..Len(calls) : calls[k].res = "decline"
    /\ \A i \in 1..Len(plugins) : kills[plugins[i]] = 1

\* a plugin was discovered and failed to load
SomeLoadFailed == Len(plugins) < nDisc

C16_TransportFailureDeclines ==
    \A k \in 1..Len(calls) :
        (calls[k].op = "decide" /\ calls[k].rpc = "rpc_error") =>
            /\ calls[k].res = "decline"
            /\ calls[k].reason = "rpc_error"
            /\ calls[k].after = calls[k].before
            /\ \A m \in 1..Len(calls) : ~(calls[m].op = "process" /\ calls[m].h = calls[k].h)
            /\ k = Len(calls) => (pc # "process" /\ context = calls[k].before)
            /\ k < Len(calls) => (calls[k + 1].before = calls[k].before
                                  /\ calls[k + 1].at = calls[k].at + 1)
            /\ pc = "done" => ret.err = "nil"

\* a run has returned in which the transport failed for a plugin's ShouldExecute
\* after an earlier plugin had changed the Context, and a later plugin was asked
C16_Witness ==
    /\ pc = "done"
    /\ \E k \in 1..Len(calls) :
          /\ calls[k].op = "decide"
          /\ calls[k].rpc = "rpc_error"
          /\ calls[k].before # NewContext(event)
          /\ k < Len(calls)

\* C17: a loaded plugin whose GetMetadata call fails is never called before a
\* plugin whose metadata call works, whatever priority that plugin reports, and
\* its name and version read as empty strings.
C17_FailedMetadataLast ==
    /\ \A i, j \in 1..Len(calls) :
          (i < j /\ ~meta[calls[i].h].ok) => ~meta[calls[j].h].ok
    /\ \A i \in 1..Len(plugins) :
          ~meta[plugins[i]].ok => (Name(plugins[i]) = "" /\ Version(plugins[i]) = "")

\* sequence s is the beginning of sequence t
IsPrefix(s, t) == Len(s) <= Len(t) /\ SubSeq(t, 1, Len(s)) = s

\* C22: across a run the working Context only grows: over every plugin call the
\* Properties keys after it include those before it and the Responses before it
\* are a prefix of the Responses after it, whatever Process returned.
C22_ContextOnlyGrows ==
    \A k \in 1..Len(calls) :
        /\ DOMAIN calls[k].before.Properties \subseteq DOMAIN calls[k].after.Properties
        /\ IsPrefix(calls[k].before.Responses, calls[k].after.Responses)

\* C23: the Event in the Context a run returns is the Event passed to
\* ProcessEvent, and so is the Event in the Context of every ShouldExecute and
\* Process call, whatever the plugins returned.
C23_EventNeverChanges ==
    /\ pc = "done" => ret.Context.Event = event
    /\ \A k \in 1..Len(calls) : calls[k].before.Event = event

\* the discovered plugins whose LoadPluginFromPath call returned an error
FailedLoads == {i \in 1..Len(loads) : loads[i] # "ok"}

\* C24: a discovered plugin whose load fails at any step is killed while the
\* plugins are being loaded and never again, is not in the plugin slice, is sent
\* no ShouldExecute or Process; every other discovered plugin is still loaded,
\* and a run that returns has called each of them.
C24_FailedLoadDropped ==
    /\ Len(loads) = loadIdx - 1
    /\ pc # "load" => Len(loads) = nDisc
    /\ \A i \in FailedLoads :
          /\ kills[i] = 1
          /\ i \notin Range(plugins)
          /\ \A k \in 1..Len(calls) : calls[k].h # i
    /\ \A i \in 1..Len(loads) : i \notin FailedLoads => i \in Range(plugins)
    /\ pc = "done" =>
          \A i \in 1..nDisc : i \notin FailedLoads =>
              \E k \in 1..Len(calls) : calls[k].h = i /\ calls[k].op = "decide"

\* a run that returned: the first discovered plugin declared a malformed version
\* bound, the second one an unmet bound, the third was loaded and processed the event
C24_Witness ==
    /\ pc = "done"
    /\ nDisc >= 3
    /\ loads[1] = "version_parse_error"
    /\ loads[2] = "incompatible"
    /\ loads[3] = "ok"
    /\ \E k \in 1..Len(calls) : calls[k].h = 3 /\ calls[k].op = "process" /\ calls[k].res = "ok"

\* the positions in the call log of the calls of operation op sent to handle h
CallsTo(op, h) == {k \in 1..Len(calls) : calls[k].op = op /\ calls[k].h = h}

AnswersSeen(h) == Range(sorting.reads[h])

\* q is in ascending order of the value v gives to each handle
AscendingBy(q, v) == \A i, j \in 1..Len(q) : i < j => v[q[i]] <= v[q[j]]

\* C26: each loaded handle's priority is read at most once in a run, and the
\* order in which the handles are visited is ascending in one value per handle,
\* a value its metadata call answered, whenever that call fails or not.
C26_PriorityReadOnce ==
    /\ \A h \in 1..sorting.n : Len(sorting.reads[h]) <= 1
    /\ sorting.pc = "done" =>
          \E v \in [1..sorting.n -> SortPriorities \cup {DefaultPriority}] :
              /\ \A h \in 1..sorting.n : v[h] \in AnswersSeen(h)
              /\ AscendingBy(sorting.data, v)

(***************************************************************************)
(* Properties of the example plugins run by the pipeline.                  *)
(***************************************************************************)
\* the plugin names in the order their ShouldExecute was called
DecideOrder ==
    LET d == SelectSeq(calls, LAMBDA c : c.op = "decide")
    IN [k \in 1..Len(d) |-> Name(d[k].h)]

\* the Filter's Process ran and left action=convert and media_type=video
FilterSetConvertVideo ==
    \E k \in 1..Len(calls) :
        /\ calls[k].op = "process"
        /\ Name(calls[k].h) = "message-filter"
        /\ HasProperty(calls[k].after.Properties, "action")
        /\ calls[k].after.Properties["action"] = StringValue("convert")
        /\ HasProperty(calls[k].after.Properties, "media_type")
        /\ calls[k].after.Properties["media_type"] = StringValue("video")

\* the Filter's Process also left needs_upload=true
FilterSetNeedsUpload ==
    \E k \in 1..Len(calls) :
        /\ calls[k].op = "process"
        /\ Name(calls[k].h) = "message-filter"
        /\ HasProperty(calls[k].after.Properties, "needs_upload")
        /\ calls[k].after.Properties["needs_upload"] = BoolValue(TRUE)

ConverterAccepted ==
    \E k \in 1..Len(calls) :
        /\ calls[k].op = "decide"
        /\ Name(calls[k].h) = "media-converter"
        /\ calls[k].res = "accept"

\* the result of the scenario: the call order and the properties of the
\* returned Context
ScenarioResult ==
    /\ DecideOrder = <<"message-filter", "media-converter", "s3-uploader">>
    /\ ConverterAccepted
    /\ HasProperty(context.Properties, "file_path")
    /\ HasProperty(context.Properties, "conversion_complete")
    /\ context.Properties["conversion_complete"] = BoolValue(TRUE)
    /\ HasProperty(context.Properties, "uploaded_url")

\* C11 as claimed: with the three plugins loaded, an event on which Filter sets
\* action=convert and media_type=video is handled by Filter, Converter, Uploader in
\* that order, Converter accepts, and the returned Context has file_path,
\* conversion_complete=true and uploaded_url.
C11_ScenarioAsClaimed ==
    (pc = "done" /\ Len(plugins) = 3 /\ FilterSetConvertVideo) => ScenarioResult

\* C11, amended: the same for an event on which Filter also sets
\* needs_upload=true (the message asks for an upload).
C11_Scenario ==
    (pc = "done" /\ Len(plugins) = 3 /\ FilterSetConvertVideo /\ FilterSetNeedsUpload)
        => ScenarioResult

\* a finished run of the amended scenario in which discovery returned the
\* Uploader first and the Filter last
C11_Witness ==
    /\ pc = "done"
    /\ Len(plugins) = 3
    /\ FilterSetConvertVideo
    /\ FilterSetNeedsUpload
    /\ Name(1) = "s3-uploader"
    /\ Name(3) = "message-filter"
    /\ HasProperty(context.Properties, "uploaded_url")

(***************************************************************************)
(* Properties of the Bulkhead and the DownloadQueue.                       *)
(***************************************************************************)
Max(a, b) == IF a >= b THEN a ELSE b

\* items whose goroutine is inside downloadFunc
InDownloadFn == {i \in ItemIds : worker[i] = "running"}

\* C6: with a concurrency limit K >= 1, never more than K items are inside
\* downloadFn at the same instant.
C6_AtMostKDownloading ==
    maxConcurrent >= 1 => Cardinality(InDownloadFn) <= maxConcurrent

\* more items than slots: K items inside downloadFn while another one waits for a slot
C6_Witness ==
    /\ maxConcurrent >= 1
    /\ nItems > maxConcurrent
    /\ Cardinality(InDownloadFn) = maxConcurrent
    /\ \E i \in ItemIds : worker[i] = "blocked"

\* C12: Execute returns a nil error whatever the items' downloads returned; with an
\* error callback registered, the callback has been called exactly once, with the
\* item's name and error, for each item whose goroutine ended after a failed
\* download, and never for any other item.
C12_ErrorsViaCallback ==
    /\ qpc = "returned" => qret = "nil"
    /\ hasError =>
          \A i \in ItemIds :
              errorCalls[i] = IF worker[i] = "done" /\ dlErr[i] # "nil"
                              THEN <<dlErr[i]>> ELSE <<>>

\* Execute has returned from a batch in which one download failed and one succeeded
C12_Witness ==
    /\ qpc = "returned"
    /\ qret = "nil"
    /\ hasError
    /\ \E i, j \in 1..nItems :
          /\ dlErr[i] = "error" /\ errorCalls[i] = <<"error">>
          /\ dlErr[j] = "nil" /\ errorCalls[j] = <<>>

\* C13: downloadFn is entered for an item only if it has not been entered for it
\* before, and when Execute returns it has been entered and has returned for every
\* queued item, whether or not other items failed.
C13_EveryItemOnce ==
    /\ [](qpc = "returned" => \A i \in 1..nItems : worker[i] = "done" /\ dlErr[i] # "none")
    /\ [][\A i \in ItemIds :
            (worker[i] # "running" /\ worker'[i] = "running")
                => (i <= nItems /\ worker[i] = "blocked" /\ dlErr[i] = "none")]_vars

\* the first item's download failed and Execute returned after the download of
\* every later item had returned too
C13_Witness ==
    /\ qpc = "returned"
    /\ nItems >= 2
    /\ dlErr[1] = "error"
    /\ \A i \in 2..nItems : dlErr[i] = "nil" /\ worker[i] = "done"

\* C14: with N >= 1 items and a progress callback, the callback is called with the
\* empty name only when every goroutine has ended, at most once, reporting
\* completed = N, and Execute has then returned, so no callback follows it.
C14_FinalProgress ==
    (nItems >= 1 /\ hasProgress) =>
        /\ qpc = "returned" => finalArgs = <<nItems>>
        /\ qpc # "returned" => finalArgs = <<>>
        /\ finalArgs # <<>> =>
              \A i \in 1..nItems : worker[i] = "done" /\ dlErr[i] # "none"

\* the final report after a batch with a failed download, with fewer slots than items
C14_Witness ==
    /\ qpc = "returned"
    /\ hasProgress
    /\ nItems > maxConcurrent
    /\ maxConcurrent >= 1
    /\ \E i \in 1..nItems : dlErr[i] = "error"
    /\ finalArgs = <<nItems>>

\* the result each item should be answered with: its name and the error its
\* slot ended with
ExpectedResult(i) == BulkheadResult(dnames[i], derr[i])

\* C19: when DownloadAll has returned, the results it returned hold exactly one
\* BulkheadResult for each item given, with the item's name and the error its
\* slot ended with.
C19_OneResultPerItem ==
    dpc = "returned" =>
        /\ Len(dresults) = Len(dnames)
        /\ \A r \in {ExpectedResult(i) : i \in 1..Len(dnames)} \cup Range(dresults) :
              Count(dresults, r) = Cardinality({i \in 1..Len(dnames) : ExpectedResult(i) = r})

\* tasks that hold a slot: fn started and its slot not yet given back
HoldingSlot == {t \in TaskIds : task[t].st \in {"running", "returned"}}

\* C7: a Bulkhead constructed with N admits at most max(N, 1) tasks at once,
\* Execute and ExecuteAsync counted together; the slots taken are exactly those of
\* the tasks that started and have not yet given theirs back, so a finished task,
\* failed or not, holds none.
C7_BulkheadLimit ==
    /\ Cardinality(HoldingSlot) <= Max(maxConcurrent, 1)
    /\ semaphore = Cardinality(HoldingSlot)

\* N <= 0 coerced to 1: a failed task has finished, an asynchronous task runs in
\* its slot and a synchronous caller waits
C7_Witness ==
    /\ maxConcurrent <= 0
    /\ \E t \in TaskIds : task[t].st = "done" /\ task[t].err = "error"
    /\ \E t \in TaskIds : task[t].st = "running" /\ task[t].mode = "async"
    /\ \E t \in TaskIds : task[t].st = "blocked" /\ task[t].mode = "sync"

\* C18: when Wait has returned, every task that was submitted through
\* ExecuteAsync before Wait was called has finished; and ExecuteAsync can always
\* be called and returns at once, also while every slot is taken (the task it
\* submitted then waits for a slot in its own goroutine).
C18_WaitJoinsAsyncTasks ==
    /\ waiter = "returned" => \A t \in waitSeen : task[t].st = "done"
    /\ \A t \in TaskIds : task[t].st = "new" => ENABLED ExecuteAsyncCall(t)

\* Wait has returned after an asynchronous task submitted before it failed; the
\* single slot is now held by a running task while a task submitted through
\* ExecuteAsync waits for it, its submitter having returned
C18_Witness ==
    /\ waiter = "returned"
    /\ semCap = 1
    /\ semaphore = semCap
    /\ \E t \in waitSeen : task[t].st = "done" /\ task[t].err = "error"
    /\ \E t \in TaskIds : task[t].mode = "async" /\ task[t].st = "blocked"

\* items whose goroutine is inside the progress callback
InProgressCallback == {i \in ItemIds : worker[i] = "progress"}

\* items whose downloadFn returned and whose completed++ has been done
Counted == {i \in ItemIds : worker[i] \in {"counted", "done"}}

\* C27: with a progress callback registered, the callback is called once for
\* each queued item, and has returned before the item's downloadFn begins; no two
\* calls run at the same time; the completed count passed is between 0 and
\* total-1 and, as long as the call runs, is the number of items whose downloadFn
\* returned and were counted.
C27_ProgressPerItem ==
    hasProgress =>
        /\ Cardinality(InProgressCallback) <= 1
        /\ \A i \in ItemIds :
              /\ Len(progressArgs[i]) = IF worker[i] \in {"none", "lock"} THEN 0 ELSE 1
              /\ Len(progressArgs[i]) = 1 => progressArgs[i][1] \in 0..(nItems - 1)
              /\ worker[i] = "progress" =>
                    (mu = i /\ progressArgs[i][1] = Cardinality(Counted))
        /\ completed = Cardinality(Counted)

\* the callback of one item runs, told that one item is completed, while a
\* third item's downloadFn has returned and waits for the mutex to be counted
C27_Witness ==
    /\ hasProgress
    /\ \E i, j, k \in ItemIds :
          /\ worker[i] = "progress"
          /\ progressArgs[i] = <<1>>
          /\ worker[j] = "count"
          /\ worker[k] = "done"

\* the items whose installPluginWithItem returned e
InstallsReturning(e) == {i \in 1..install.n : install.err[i] = e}

\* the goroutines that have read a shared slice and not yet written it back
MidAppend == {i \in ItemIds : install.worker[i] \in {"lock_write", "failed_write"}}

\* sequence q holds each element of set S once and nothing else
HoldsEachOnce(q, S) == Len(q) = Cardinality(S) /\ Range(q) = S

\* C28: in the install flow no two goroutines are inside a read-modify-write of
\* the shared lists at the same time, the completed counter counts every ended
\* install, and after Execute returns `failed` holds exactly the items whose
\* install returned an error and, with update-lock, lock.Plugins exactly the
\* items that were installed.
C28_SharedStateExclusive ==
    /\ Cardinality(MidAppend) <= 1
    /\ install.pc = "returned" =>
          /\ install.completed = install.n
          /\ HoldsEachOnce(install.failed, InstallsReturning("error"))
          /\ install.update => HoldsEachOnce(install.lock, InstallsReturning("nil"))

\* the step leaves item i's unit as it is
UnitStays(i) == dworker'[i] = dworker[i] /\ derr'[i] = derr[i]

C30_ExecuteReturns ==
    /\ <>(qpc = "returned")
    /\ \A i \in ItemIds : (worker[i] = "blocked") ~> (worker[i] = "running")
    /\ [](qpc = "returned" =>
            /\ semaphore = 0
            /\ \A i \in 1..nItems : worker[i] = "done")

\* Execute has returned with every slot free: there were more items than slots
\* and one of the downloads had failed
C30_Witness ==
    /\ qpc = "returned"
    /\ maxConcurrent >= 1
    /\ nItems > maxConcurrent
    /\ semaphore = 0
    /\ \E i \in 1..nItems : dlErr[i] = "error"

(***************************************************************************)
(* Properties of the version check.                                        *)
(***************************************************************************)
\* s is written MAJOR.MINOR.PATCH, three decimal numbers
IsVersion(s) == \E a, b, c \in 0..10 : s = VersionString(a, b, c)

\* the numbers of a version written MAJOR.MINOR.PATCH
VersionOf(s) == CHOOSE t \in (0..10) \X (0..10) \X (0..10) : s = VersionString(t[1], t[2], t[3])

\* version v is at most version w: major first, then minor, then patch
AtMost(v, w) ==
    \/ v[1] < w[1]
    \/ v[1] = w[1] /\ v[2] < w[2]
    \/ v[1] = w[1] /\ v[2] = w[2] /\ v[3] <= w[3]

\* C20: IsCompatible returns an error whenever cli, a non-empty min or a
\* non-empty max is not a MAJOR.MINOR.PATCH version; otherwise it returns no
\* error, and true exactly when min <= cli (min non-empty) and cli <= max (max
\* non-empty), both bounds inclusive.
C20_IsCompatibleReference ==
    vpc = "done" =>
        IF \/ ~IsVersion(vin.cli)
           \/ (vin.min # <<>> /\ ~IsVersion(vin.min))
           \/ (vin.max # <<>> /\ ~IsVersion(vin.max))
        THEN vres.err # "nil"
        ELSE /\ vres.err = "nil"
             /\ vres.compatible =
                   (/\ (vin.min # <<>> => AtMost(VersionOf(vin.min), VersionOf(vin.cli)))
                    /\ (vin.max # <<>> => AtMost(VersionOf(vin.cli), VersionOf(vin.max))))

(***************************************************************************)
(* Properties of the wire form of a Context.                               *)
(***************************************************************************)
\* the maps of a Context: its Properties, its Event's Metadata, the Data of
\* its Responses
MapsOf(ctx) ==
    {ctx.Properties, ctx.Event.Metadata} \cup {ctx.Responses[i].Data : i \in 1..Len(ctx.Responses)}

\* every value of the Context can be written as JSON
JsonRepresentable(ctx) == \A m \in MapsOf(ctx) : \A k \in DOMAIN m : Marshalable(m[k])

RECURSIVE IsDecoded(_)
\* the value is of a type json.Unmarshal yields, and so are the values it holds
IsDecoded(v) ==
    CASE v[1] \in {"nil", "bool", "float64", "string"} -> TRUE
      [] v[1] = "[]interface{}" -> \A i \in 1..Len(v[2]) : IsDecoded(v[2][i])
      [] v[1] = "map[string]interface{}" -> \A k \in DOMAIN v[2] : IsDecoded(v[2][k])
      [] OTHER -> FALSE

\* every value of the Context is of a type json.Unmarshal yields
DecodedTypesOnly(ctx) == \A m \in MapsOf(ctx) : \A k \in DOMAIN m : IsDecoded(m[k])

\* what the claim lists: the Event fields, the Properties keys with their
\* values, the Responses in order with plugin name, content and type
Preserved(c, r) ==
    /\ r.Event.Type = c.Event.Type
    /\ r.Event.Source = c.Event.Source
    /\ r.Event.Content = c.Event.Content
    /\ r.Event.UserID = c.Event.UserID
    /\ r.Event.ChannelID = c.Event.ChannelID
    /\ DOMAIN r.Properties = DOMAIN c.Properties
    /\ \A k \in DOMAIN c.Properties : r.Properties[k] = c.Properties[k]
    /\ Len(r.Responses) = Len(c.Responses)
    /\ \A i \in 1..Len(c.Responses) :
          /\ r.Responses[i].PluginName = c.Responses[i].PluginName
          /\ r.Responses[i].Content = c.Responses[i].Content
          /\ r.Responses[i].Type = c.Responses[i].Type

Resolved(path) == Normalize(Segments(path, 1, <<>>), IsAbs(path), <<>>)

\* path p lies strictly below directory d
Inside(p, d) ==
    LET rp == Resolved(p)
        rd == Resolved(d)
    IN /\ IsAbs(p) = IsAbs(d)
       /\ Len(rp) > Len(rd)
       /\ SubSeq(rp, 1, Len(rd)) = rd
       /\ \A k \in (Len(rd) + 1)..Len(rp) : rp[k] # DotDot

\* the entries the safety rule rejects
RuleRejects(name, dest) ==
    \/ \E i \in 1..(Len(name) - 1) : name[i] = "." /\ name[i + 1] = "."
    \/ (name # <<>> /\ name[1] = "/")
    \/ ~HasPrefix(Join(dest, name), Append(Clean(dest), "/"))

\* C8: nothing is created or written outside the destination directory, and an
\* entry whose name contains "..", is absolute, or whose joined target lacks the
\* destination directory plus separator as a prefix is skipped with nothing written.
C8_NoWriteOutside ==
    /\ \A p \in xout.writes : Inside(p, xdest)
    /\ (xpc \in {"handled", "failed"} /\ xout.kind # "none" /\ RuleRejects(xlast.Name, xdest))
          => (xout.kind = "skipped" /\ xout.writes = {})

\* a regular-file entry named with ".." that would land outside the destination
\* has been skipped
C8_Witness ==
    /\ xpc = "handled"
    /\ xout.kind = "skipped"
    /\ xlast.Typeflag = "reg"
    /\ Contains(xlast.Name, DotDot)
    /\ ~Inside(Join(xdest, xlast.Name), xdest)

\* C9: a regular-file entry that carries more bytes than the per-file cap makes
\* the extraction fail; it is never handled successfully.
C9_OversizeIsError ==
    (xlast.Typeflag = "reg" /\ xlast.Size > MaxFileSize /\ xout.kind \notin {"none", "skipped"})
        => xout.err

\* the resource has a token: some character of it is not white space
HasToken(body) == \E k \in 1..Len(body) : body[k] \notin Whitespace

\* tok is the first white-space-delimited token of body
IsFirstToken(tok, body) ==
    \E i, j \in 1..Len(body) :
        /\ i <= j
        /\ \A k \in 1..(i - 1) : body[k] \in Whitespace
        /\ \A k \in i..j : body[k] \notin Whitespace
        /\ (j = Len(body) \/ body[j + 1] \in Whitespace)
        /\ tok = SubSeq(body, i, j)

\* C10: verifyFileChecksum fails on a failed or non-200 response and on a
\* resource without a token; otherwise, with the archive readable, it returns no
\* error exactly when the first token equals the archive's hex digest.
C10_ChecksumVerdict ==
    cpc = "done" =>
        /\ (cin.httpErr \/ cin.status # StatusOK \/ ~HasToken(cin.body)) => cres # "nil"
        /\ (~cin.httpErr /\ cin.status = StatusOK /\ HasToken(cin.body) /\ cin.fileOK)
              => (cres = "nil" <=> IsFirstToken(cin.digest, cin.body))

\* accepted: the first token is the digest and a second, different token follows
C10_Witness ==
    /\ cpc = "done"
    /\ cres = "nil"
    /\ Len(Fields(cin.body, 1, <<>>)) = 2
    /\ Fields(cin.body, 1, <<>>)[2] # cin.digest

=============================================================================
